---------------------------- MODULE Spec2Model ----------------------------
(***************************************************************************)
(* A model of minihost's realtime processing pipeline:                     *)
(*   - the lock-free SPSC MIDI ring buffer (midi_ringbuffer.c / .cpp),     *)
(*   - the chunked automation loops mh_process_auto (minihost.cpp) and     *)
(*     mh_chain_process_auto (minihost_chain.cpp),                         *)
(*   - the plugin chain object: mh_chain_create, mh_chain_process_midi_io, *)
(*     its latency / tail getters and mh_chain_close (minihost_chain.cpp), *)
(*   - the per-plugin state mutex taken by mh_set_param (minihost.cpp),    *)
(*   - the audio device callback and its MIDI input callback               *)
(*     (minihost_audio.c).                                                 *)
(*   - the connection of the device's MIDI output while the callback      *)
(*     runs (minihost_audio.c, minihost_midi.cpp).                         *)
(* Each subsystem has its own specifications (SpecRing, SpecCreate and     *)
(* SpecQueueFair; SpecAuto, SpecAutoMidi, SpecAnyOrder, SpecPair,          *)
(* SpecViews, SpecLimits and SpecLock; SpecChain; SpecAudio, SpecDelivery  *)
(* and SpecMidiOut); the variables of the other subsystems stay at their   *)
(* initial value.                                                          *)
(***************************************************************************)
EXTENDS Integers, Sequences, FiniteSets, TLC

(***************************************************************************)
(* Bounds of the model.                                                    *)
(***************************************************************************)
\* largest capacity requested from mh_midi_ringbuffer_create
MaxReqCap == 4
\* number of push calls the producer thread makes
MaxPush == 6
\* largest max_events passed to pop_all
MaxDrain == 2
\* largest block (nframes) passed to mh_process_auto / mh_chain_process_auto;
\* the plugins are opened with max_block_size MaxFrames - 1
MaxFrames == 4
\* longest param_changes list
MaxChanges == 3
\* longest midi_in list passed to mh_process_auto / mh_chain_process_auto
MaxMidi == 2
\* longest plugin array passed to mh_chain_create
MaxStages == 3
\* number of mh_chain_process_midi_io calls made on the chains
MaxCalls == 2
\* number of audio_callback invocations
MaxCallbacks == 2
\* number of midi_input_callback invocations
MaxMidiPush == 2
\* largest capacity requested in the creation specification
MaxCreateReq == 300
\* number of connect / disconnect calls the control thread makes on the
\* MIDI output
MaxCtlCalls == 2
\* largest num_midi_out the plugin leaves for the callback's send loop
MaxSend == 2

VARIABLES
    \* struct MH_MidiRingBuffer
    capacity, mask, buffer, write_pos, read_pos,
    \* the producer thread inside mh_midi_ringbuffer_push (its locals)
    prod,
    \* the consumer thread inside mh_midi_ringbuffer_pop / pop_all (its locals)
    cons,
    \* history: events whose push published, events returned to the consumer
    pushed, popped,
    \* history: number of push calls made, number of events whose read is published
    nPushCalls, nRead,
    \* history: per slot, who may touch its payload
    slot,
    \* history: a pop/pop_all published a read since the last push was published
    popSince,
    \* one call of mh_process_auto / mh_chain_process_auto: its arguments
    api, nframes, param_changes, midi_in, midi_out_capacity,
    \* the plugins behind the call: their number, max block size, parameter
    \* values, whether processBlock leaves its MIDI input in the buffer and
    \* how many events of its own it adds
    num_plugins, maxBlockSize, plugParams, midiThru, midiEmit,
    \* the call's locals
    current_sample, param_idx, midi_idx, midi_out_idx,
    \* the caller's midi_out array and *num_midi_out
    midi_out, num_midi_out,
    \* the caller's output frames: per frame, the parameter values it was
    \* rendered with (<<>> while unwritten)
    outputs,
    \* where the call is, and its return value
    a_pc, a_ret,
    \* history: parameter applications and backend calls, in order
    trace,
    \* the MH_PluginChain object (NoChain while none exists), the frames of its
    \* intermediate buffers and the message mh_chain_create left in err_buf
    chainObj, inter, err,
    \* the plugin array the last mh_chain_create call was given
    plugins,
    \* the owner's plugins: whether each is open
    plugState,
    \* history: the stage calls of the last mh_chain_process_midi_io call and
    \* the number of such calls made on the chain
    calls, nCalls,
    \* the plugins (0-based stage indices) whose MH_Plugin::stateMutex is held
    \* by a control thread
    stateMutex,
    \* mh_chain_process_auto: its locals in_ch and out_ch (the chain's
    \* num_input_channels and num_output_channels) and, as history, the
    \* input and output views it handed to the traversal of each chunk
    in_ch, out_ch, views,
    \* history: the outcome of the mh_process_auto call whose arguments the
    \* running mh_chain_process_auto call repeats (<<>>: none)
    reference,
    \* the capacity mh_midi_ringbuffer_create was asked for
    requested,
    \* struct MH_AudioDevice (its configuration) and its output_buffers
    dev, output_buffers,
    \* the driver's arguments of the last audio_callback: frame_count and the
    \* interleaved output array
    frame_count, interleaved_output,
    \* the messages handed to mh_midi_out_send, in order
    sent,
    \* history: what the last audio_callback drained, processed and collected,
    \* and the number of callbacks so far
    cb, nCallbacks,
    \* dev->midi_out (NoHandle: NULL), the MH_MidiOut objects that are open,
    \* the control thread inside a connect / disconnect call and the audio
    \* thread inside the callback's MIDI send loop (their locals)
    midi_out_ptr, open_outs, ctl, snd,
    \* history: the calls of mh_midi_out_send, in order
    out_sends

autoVars == <<api, nframes, param_changes, midi_in, midi_out_capacity,
              num_plugins, maxBlockSize, plugParams, midiThru, midiEmit,
              current_sample, param_idx, midi_idx, midi_out_idx,
              midi_out, num_midi_out, outputs, a_pc, a_ret, trace>>

chainVars == <<chainObj, inter, err, plugins, plugState, calls, nCalls>>

ringVars == <<capacity, mask, buffer, write_pos, read_pos, prod, cons,
              pushed, popped, nPushCalls, nRead, slot, popSince, requested>>

lockVars == <<stateMutex, reference>>

viewVars == <<in_ch, out_ch, views>>

midiOutVars == <<midi_out_ptr, open_outs, ctl, snd, out_sends>>

audioVars == <<dev, output_buffers, frame_count, interleaved_output, sent,
               cb, nCallbacks, midiOutVars>>

(***************************************************************************)
(* Integer helpers: the C bit operators on non-negative ints.              *)
(***************************************************************************)
RECURSIVE BitAnd(_, _)
BitAnd(a, b) ==
    IF a = 0 \/ b = 0 THEN 0
    ELSE (IF a % 2 = 1 /\ b % 2 = 1 THEN 1 ELSE 0) + 2 * BitAnd(a \div 2, b \div 2)

RECURSIVE BitOr(_, _)
BitOr(a, b) ==
    IF a = 0 THEN b
    ELSE IF b = 0 THEN a
    ELSE (IF a % 2 = 1 \/ b % 2 = 1 THEN 1 ELSE 0) + 2 * BitOr(a \div 2, b \div 2)

RECURSIVE ShiftR(_, _)
ShiftR(a, k) == IF k = 0 THEN a ELSE ShiftR(a \div 2, k - 1)

Min(a, b) == IF a < b THEN a ELSE b

IsPrefix(s, t) == Len(s) <= Len(t) /\ SubSeq(t, 1, Len(s)) = s

(***************************************************************************)
(* midi_ringbuffer.c                                                       *)
(***************************************************************************)
\* INT_MAX of the 32-bit int that next_power_of_2 computes in
IntMax == 2147483647

\* mutant: next_power_of_2 without the leading n--
next_power_of_2_NoDecrement(n) ==
    LET n0 == n
        n1 == BitOr(n0, ShiftR(n0, 1))
        n2 == BitOr(n1, ShiftR(n1, 2))
        n3 == BitOr(n2, ShiftR(n2, 4))
        n4 == BitOr(n3, ShiftR(n3, 8))
        n5 == BitOr(n4, ShiftR(n4, 16))
    IN  IF n5 = IntMax THEN 0 - IntMax - 1 ELSE n5 + 1

\* static int next_power_of_2(int n), for n >= 1. For n > 2^30 the bits
\* below the top one are all set and the closing n++ overflows int, which
\* leaves INT_MIN in the 32-bit register.
next_power_of_2(n) ==
    LET n0 == n - 1
        n1 == BitOr(n0, ShiftR(n0, 1))
        n2 == BitOr(n1, ShiftR(n1, 2))
        n3 == BitOr(n2, ShiftR(n2, 4))
        n4 == BitOr(n3, ShiftR(n3, 8))
        n5 == BitOr(n4, ShiftR(n4, 16))
    IN  IF n5 = IntMax THEN 0 - IntMax - 1 ELSE n5 + 1

\* MH_MidiEvent as calloc leaves it
ZeroEvent == [sample_offset |-> 0, status |-> 0, data1 |-> 0, data2 |-> 0]
\* what the caller's output storage holds before a pop writes it
StaleEvent == [sample_offset |-> -1, status |-> 0, data1 |-> 0, data2 |-> 0]

\* The event the producer's n-th call pushes: a note-on (status 0x90) that
\* carries n in both words of the struct, so that every pushed event is
\* distinct and a copy that mixes two events is visible.
PushEvent(n) == [sample_offset |-> n, status |-> 144, data1 |-> n, data2 |-> n]

\* A struct assignment is not atomic: it is modelled as two word copies, the
\* first carrying sample_offset, the second status/data1/data2.
CopyWord0(dst, src) == [dst EXCEPT !.sample_offset = src.sample_offset]
CopyWord1(dst, src) ==
    [dst EXCEPT !.status = src.status, !.data1 = src.data1, !.data2 = src.data2]

ProdIdle == [pc |-> "idle", write |-> 0, next_write |-> 0, read |-> 0,
             event |-> ZeroEvent, ret |-> -1,
             buffer0 |-> <<>>, unread |-> 0, popBefore |-> FALSE]
ConsIdle == [pc |-> "idle", op |-> "none", max_events |-> 0, read |-> 0,
             write |-> 0, count |-> 0, events |-> <<>>, ret |-> -1,
             read0 |-> 0, avail |-> 0, popped0 |-> 0]

\* `capacity = 256;  // Default`
DefaultCapacity == 256

\* the capacity mh_midi_ringbuffer_create(req) asks calloc for
CreatedCapacity(req) ==
    next_power_of_2(IF req <= 0 THEN DefaultCapacity ELSE req)

\* the ring buffer mh_midi_ringbuffer_create(req) returns
RingCreate(req) ==
    LET cap == CreatedCapacity(req) IN
    /\ capacity = cap
    /\ mask = cap - 1
    /\ buffer = [i \in 0..(cap - 1) |-> ZeroEvent]
    /\ write_pos = 0
    /\ read_pos = 0
    /\ requested = req

\* no ring buffer exists
RingParked ==
    /\ capacity = 0
    /\ mask = 0
    /\ buffer = <<>>
    /\ write_pos = 0
    /\ read_pos = 0
    /\ prod = ProdIdle
    /\ cons = ConsIdle
    /\ pushed = <<>>
    /\ popped = <<>>
    /\ nPushCalls = 0
    /\ nRead = 0
    /\ slot = <<>>
    /\ popSince = FALSE
    /\ requested = 0

\* no automation call is in progress
AutoParked ==
    /\ api = "none"
    /\ nframes = 0
    /\ param_changes = <<>>
    /\ midi_in = <<>>
    /\ midi_out_capacity = 0
    /\ num_plugins = 0
    /\ maxBlockSize = 0
    /\ plugParams = <<>>
    /\ midiThru = FALSE
    /\ midiEmit = 0
    /\ current_sample = 0
    /\ param_idx = 0
    /\ midi_idx = 0
    /\ midi_out_idx = 0
    /\ midi_out = <<>>
    /\ num_midi_out = 0
    /\ outputs = <<>>
    /\ a_pc = "none"
    /\ a_ret = -1
    /\ trace = <<>>

\* a chain of one input and one output channel; no chunk was handed on yet
NoViews ==
    /\ in_ch = 1
    /\ out_ch = 1
    /\ views = <<>>

\* a null MH_MidiOut*
NoHandle == 0
\* the control thread outside a connect / disconnect call, the audio thread
\* outside the callback's MIDI send loop
CtlIdle == [pc |-> "idle", op |-> "none", closing |-> NoHandle, calls |-> 0]
SndIdle == [pc |-> "idle", n |-> 0, i |-> 0, first |-> NoHandle,
            arg |-> NoHandle, calls |-> 0]

\* dev->midi_out after mh_audio_open: one open MH_MidiOut when the
\* configured output port could be opened, NULL otherwise
MidiOutOpened(connected) ==
    /\ midi_out_ptr = IF connected THEN 1 ELSE NoHandle
    /\ open_outs = IF connected THEN {1} ELSE {}
    /\ ctl = CtlIdle
    /\ snd = SndIdle
    /\ out_sends = <<>>

\* no control thread is inside an accessor, and no audio device exists
NoDevice == [channels |-> 0]
OthersParked ==
    /\ MidiOutOpened(FALSE)
    /\ stateMutex = {}
    /\ reference = <<>>
    /\ dev = NoDevice
    /\ output_buffers = <<>>
    /\ frame_count = 0
    /\ interleaved_output = <<>>
    /\ sent = <<>>
    /\ cb = <<>>
    /\ nCallbacks = 0

\* a null MH_PluginChain*
NoChain == [plugins |-> <<>>]
\* err_buf as the caller passes it
NoError == [msg |-> "", index |-> 0 - 1]

\* no chain exists and no plugin is held
ChainParked ==
    /\ chainObj = NoChain
    /\ inter = <<>>
    /\ err = NoError
    /\ plugins = <<>>
    /\ plugState = <<>>
    /\ calls = <<>>
    /\ nCalls = 0

RingInit ==
    /\ AutoParked
    /\ ChainParked
    /\ OthersParked
    /\ NoViews
    /\ \E req \in 1..MaxReqCap : RingCreate(req)
    /\ prod = ProdIdle
    /\ cons = ConsIdle
    /\ pushed = <<>>
    /\ popped = <<>>
    /\ nPushCalls = 0
    /\ nRead = 0
    /\ slot = [i \in 0..(capacity - 1) |-> "free"]
    /\ popSince = FALSE

\* The requests of the creation specification: the non-positive ones, every
\* size up to MaxCreateReq, and two above 2^30.
CreateRequests == ((0 - 2)..MaxCreateReq) \cup {IntMax \div 2 + 2, IntMax}

\* before mh_midi_ringbuffer_create is called
CreateInit ==
    /\ RingParked
    /\ AutoParked
    /\ ChainParked
    /\ OthersParked
    /\ NoViews

\* mh_midi_ringbuffer_create(req) as one step. A capacity that came out of
\* next_power_of_2 negative is a size calloc cannot serve: the call returns
\* NULL and no ring buffer exists.
RingCreateCall ==
    /\ capacity = 0
    /\ requested = 0
    /\ \E req \in CreateRequests :
          LET cap == CreatedCapacity(req) IN
          /\ requested' = req
          /\ IF cap <= 0
             THEN UNCHANGED <<capacity, mask, buffer, slot>>
             ELSE /\ capacity' = cap
                  /\ mask' = cap - 1
                  /\ buffer' = [i \in 0..(cap - 1) |-> ZeroEvent]
                  /\ slot' = [i \in 0..(cap - 1) |-> "free"]
    /\ write_pos' = 0
    /\ read_pos' = 0
    /\ UNCHANGED <<autoVars, viewVars, chainVars, lockVars, audioVars,
                   prod, cons, pushed, popped, nPushCalls, nRead, popSince>>

CreateNext == RingCreateCall

\* (write + 1) & rb->mask
NextIndex(i) == BitAnd(i + 1, mask)

\* mutants of the full check: left out; reserving two slots instead of one
PushIsFull_NoCheck(next_write, read) == FALSE
PushIsFull_TwoReserved(next_write, read) ==
    next_write = read \/ NextIndex(next_write) = read

\* push: `if (next_write == read)`
PushIsFull(next_write, read) == next_write = read

\* mutant of the empty check: left out
PopIsEmpty_NoCheck(read, write) == FALSE

\* pop: `if (read == write)`
PopIsEmpty(read, write) == read = write

\* mutant of the drain loop's test: the loop is never entered
PopAllContinue_Never(read, write, count, max_events) == FALSE

\* mutants of the drain loop's test: one conjunct left out
PopAllContinue_NoEmptyTest(read, write, count, max_events) == count < max_events
PopAllContinue_NoMax(read, write, count, max_events) == read # write

\* pop_all: `while (read != write && count < max_events)`
PopAllContinue(read, write, count, max_events) ==
    read # write /\ count < max_events

(*------------------------- mh_midi_ringbuffer_push ----------------------*)
\* entry, relaxed load of write_pos, next_write
PushCall ==
    /\ prod.pc = "idle"
    /\ nPushCalls < MaxPush
    /\ prod' = [ProdIdle EXCEPT !.pc = "load_read",
                                !.write = write_pos,
                                !.next_write = NextIndex(write_pos),
                                !.event = PushEvent(nPushCalls + 1),
                                !.buffer0 = buffer]
    /\ nPushCalls' = nPushCalls + 1
    /\ UNCHANGED <<autoVars, viewVars, chainVars, lockVars, audioVars, requested,
                   capacity, mask, buffer, write_pos, read_pos, cons,
                   pushed, popped, nRead, slot, popSince>>

\* acquire load of read_pos and the full check
PushLoadRead ==
    /\ prod.pc = "load_read"
    /\ prod' = [prod EXCEPT
                  !.read = read_pos,
                  !.unread = Len(pushed) - nRead,
                  !.popBefore = popSince,
                  !.pc = IF PushIsFull(prod.next_write, read_pos)
                         THEN "ret" ELSE "write0",
                  !.ret = IF PushIsFull(prod.next_write, read_pos)
                          THEN 0 ELSE -1]
    /\ UNCHANGED <<autoVars, viewVars, chainVars, lockVars, audioVars, requested,
                   capacity, mask, buffer, write_pos, read_pos, cons,
                   pushed, popped, nPushCalls, nRead, slot, popSince>>

\* rb->buffer[write] = *event, first word
PushWrite0 ==
    /\ prod.pc = "write0"
    /\ buffer' = [buffer EXCEPT ![prod.write] = CopyWord0(@, prod.event)]
    /\ slot' = [slot EXCEPT ![prod.write] = "writing"]
    /\ prod' = [prod EXCEPT !.pc = "write1"]
    /\ UNCHANGED <<autoVars, viewVars, chainVars, lockVars, audioVars, requested,
                   capacity, mask, write_pos, read_pos, cons,
                   pushed, popped, nPushCalls, nRead, popSince>>

\* rb->buffer[write] = *event, second word
PushWrite1 ==
    /\ prod.pc = "write1"
    /\ buffer' = [buffer EXCEPT ![prod.write] = CopyWord1(@, prod.event)]
    /\ slot' = [slot EXCEPT ![prod.write] = "written"]
    /\ prod' = [prod EXCEPT !.pc = "publish"]
    /\ UNCHANGED <<autoVars, viewVars, chainVars, lockVars, audioVars, requested,
                   capacity, mask, write_pos, read_pos, cons,
                   pushed, popped, nPushCalls, nRead, popSince>>

\* release store of write_pos; from here the call returns 1
PushPublish ==
    /\ prod.pc = "publish"
    /\ write_pos' = prod.next_write
    /\ pushed' = Append(pushed, prod.event)
    /\ slot' = [slot EXCEPT ![prod.write] = "full"]
    /\ popSince' = FALSE
    /\ prod' = [prod EXCEPT !.pc = "ret", !.ret = 1]
    /\ UNCHANGED <<autoVars, viewVars, chainVars, lockVars, audioVars, requested,
                   capacity, mask, buffer, read_pos, cons,
                   popped, nPushCalls, nRead>>

PushReturn ==
    /\ prod.pc = "ret"
    /\ prod' = [prod EXCEPT !.pc = "idle"]
    /\ UNCHANGED <<autoVars, viewVars, chainVars, lockVars, audioVars, requested,
                   capacity, mask, buffer, write_pos, read_pos, cons,
                   pushed, popped, nPushCalls, nRead, slot, popSince>>

(*-------------------------- mh_midi_ringbuffer_pop ----------------------*)
\* entry, relaxed load of read_pos
PopCall ==
    /\ cons.pc = "idle"
    /\ cons' = [ConsIdle EXCEPT !.pc = "load_write",
                                !.op = "pop",
                                !.max_events = 1,
                                !.read = read_pos,
                                !.read0 = read_pos,
                                !.events = <<StaleEvent>>,
                                !.popped0 = Len(popped)]
    /\ UNCHANGED <<autoVars, viewVars, chainVars, lockVars, audioVars, requested,
                   capacity, mask, buffer, write_pos, read_pos, prod,
                   pushed, popped, nPushCalls, nRead, slot, popSince>>

(*------------------------ mh_midi_ringbuffer_pop_all --------------------*)
\* entry with the max_events check, count = 0, relaxed load of read_pos
PopAllCall ==
    /\ cons.pc = "idle"
    /\ \E max_events \in (0 - 1)..MaxDrain :
        cons' = IF max_events <= 0
                THEN [ConsIdle EXCEPT !.pc = "ret",
                                      !.op = "pop_all",
                                      !.max_events = max_events,
                                      !.read0 = read_pos,
                                      !.ret = 0,
                                      !.popped0 = Len(popped)]
                ELSE [ConsIdle EXCEPT !.pc = "load_write",
                                      !.op = "pop_all",
                                      !.max_events = max_events,
                                      !.read = read_pos,
                                      !.read0 = read_pos,
                                      !.events = [i \in 1..max_events |-> StaleEvent],
                                      !.popped0 = Len(popped)]
    /\ UNCHANGED <<autoVars, viewVars, chainVars, lockVars, audioVars, requested,
                   capacity, mask, buffer, write_pos, read_pos, prod,
                   pushed, popped, nPushCalls, nRead, slot, popSince>>

\* whether the consumer goes on to copy a slot after a test of its loop/empty check
ConsHasNext(read, write, count) ==
    IF cons.op = "pop"
    THEN ~PopIsEmpty(read, write)
    ELSE PopAllContinue(read, write, count, cons.max_events)

\* acquire load of write_pos, then pop's empty check / pop_all's first loop test
ConsLoadWrite ==
    /\ cons.pc = "load_write"
    /\ cons' = [cons EXCEPT
                  !.write = write_pos,
                  !.avail = Len(pushed) - nRead,
                  !.pc = IF ConsHasNext(cons.read, write_pos, cons.count)
                         THEN "copy0" ELSE "ret",
                  !.ret = IF ConsHasNext(cons.read, write_pos, cons.count)
                          THEN -1 ELSE 0]
    /\ UNCHANGED <<autoVars, viewVars, chainVars, lockVars, audioVars, requested,
                   capacity, mask, buffer, write_pos, read_pos, prod,
                   pushed, popped, nPushCalls, nRead, slot, popSince>>

\* *event = rb->buffer[read] / events[count] = rb->buffer[read], first word
ConsCopy0 ==
    /\ cons.pc = "copy0"
    /\ cons' = [cons EXCEPT
                  !.events[cons.count + 1] = CopyWord0(@, buffer[cons.read]),
                  !.pc = "copy1"]
    /\ slot' = [slot EXCEPT ![cons.read] = "reading"]
    /\ UNCHANGED <<autoVars, viewVars, chainVars, lockVars, audioVars, requested,
                   capacity, mask, buffer, write_pos, read_pos, prod,
                   pushed, popped, nPushCalls, nRead, popSince>>

\* mutant: pop_all stores its read cursor after every event it copies
ConsCopy1_PublishEach ==
    /\ cons.pc = "copy1"
    /\ cons' =
        IF cons.op = "pop"
        THEN [cons EXCEPT
                !.events[1] = CopyWord1(@, buffer[cons.read]),
                !.pc = "publish"]
        ELSE [cons EXCEPT
                !.events[cons.count + 1] = CopyWord1(@, buffer[cons.read]),
                !.read = NextIndex(cons.read),
                !.count = cons.count + 1,
                !.pc = IF PopAllContinue(NextIndex(cons.read), cons.write,
                                         cons.count + 1, cons.max_events)
                       THEN "copy0" ELSE "publish"]
    /\ read_pos' = IF cons.op = "pop" THEN read_pos ELSE NextIndex(cons.read)
    /\ slot' = [slot EXCEPT ![cons.read] = "copied"]
    /\ UNCHANGED <<autoVars, viewVars, chainVars, lockVars, audioVars, requested,
                   capacity, mask, buffer, write_pos, prod,
                   pushed, popped, nPushCalls, nRead, popSince>>

\* second word; pop_all then advances its local read and count and tests the loop
ConsCopy1 ==
    /\ cons.pc = "copy1"
    /\ cons' =
        IF cons.op = "pop"
        THEN [cons EXCEPT
                !.events[1] = CopyWord1(@, buffer[cons.read]),
                !.pc = "publish"]
        ELSE [cons EXCEPT
                !.events[cons.count + 1] = CopyWord1(@, buffer[cons.read]),
                !.read = NextIndex(cons.read),
                !.count = cons.count + 1,
                !.pc = IF PopAllContinue(NextIndex(cons.read), cons.write,
                                         cons.count + 1, cons.max_events)
                       THEN "copy0" ELSE "publish"]
    /\ slot' = [slot EXCEPT ![cons.read] = "copied"]
    /\ UNCHANGED <<autoVars, viewVars, chainVars, lockVars, audioVars, requested,
                   capacity, mask, buffer, write_pos, read_pos, prod,
                   pushed, popped, nPushCalls, nRead, popSince>>

\* mutant: both calls store the cursor after the one they stopped at
PublishedRead_OneMore == NextIndex(cons.read)

\* mutant: pop stores the read cursor it loaded, not the next one
PublishedRead_NoAdvance == cons.read

\* the value pop / pop_all stores to read_pos
PublishedRead == IF cons.op = "pop" THEN NextIndex(cons.read) ELSE cons.read

\* mutant: the consumer clears the slot it releases
ConsPublish_ClearsSlot ==
    /\ cons.pc = "publish"
    /\ read_pos' = PublishedRead
    /\ buffer' = [buffer EXCEPT ![read_pos] = ZeroEvent]
    /\ LET n == IF cons.op = "pop" THEN 1 ELSE cons.count IN
        /\ nRead' = nRead + n
        /\ cons' = [cons EXCEPT !.pc = "ret", !.ret = n]
    /\ slot' = [i \in DOMAIN slot |-> IF slot[i] = "copied" THEN "free" ELSE slot[i]]
    /\ popSince' = TRUE
    /\ UNCHANGED <<autoVars, viewVars, chainVars, lockVars, audioVars, requested,
                   capacity, mask, write_pos, prod,
                   pushed, popped, nPushCalls>>

\* release store of read_pos (pop_all: `if (count > 0)`, which holds here)
ConsPublish ==
    /\ cons.pc = "publish"
    /\ read_pos' = PublishedRead
    /\ LET n == IF cons.op = "pop" THEN 1 ELSE cons.count IN
        /\ nRead' = nRead + n
        /\ cons' = [cons EXCEPT !.pc = "ret", !.ret = n]
    /\ slot' = [i \in DOMAIN slot |-> IF slot[i] = "copied" THEN "free" ELSE slot[i]]
    /\ popSince' = TRUE
    /\ UNCHANGED <<autoVars, viewVars, chainVars, lockVars, audioVars, requested,
                   capacity, mask, buffer, write_pos, prod,
                   pushed, popped, nPushCalls>>

\* the call returns: the caller now holds events[0 .. ret-1]
ConsReturn ==
    /\ cons.pc = "ret"
    /\ popped' = popped \o SubSeq(cons.events, 1, cons.ret)
    /\ cons' = [cons EXCEPT !.pc = "idle"]
    /\ UNCHANGED <<autoVars, viewVars, chainVars, lockVars, audioVars, requested,
                   capacity, mask, buffer, write_pos, read_pos, prod,
                   pushed, nPushCalls, nRead, slot, popSince>>

(***************************************************************************)
(* minihost.cpp, minihost_chain.cpp: chunked parameter automation.         *)
(* Normalized parameter values are counted in tenths: 1.0 is 10.           *)
(* Indices (param_idx, midi_idx, plugin_index) are 0-based as in the       *)
(* source; sequences are 1-based, so element i of an array is seq[i + 1].  *)
(***************************************************************************)
\* params.size() of every hosted plugin
ParamsSize == 2
\* chain->max_block_size
ChainMaxBlockSize == 8192
\* size of chunk_midi_out, the per-chunk scratch array of mh_chain_process_auto
ChunkMidiOutSize == 256

\* mutant: only the lower limit is enforced
jlimit_NoUpper(lo, hi, v) == IF v < lo THEN lo ELSE v

\* juce::jlimit(lowerLimit, upperLimit, valueToConstrain)
jlimit(lo, hi, v) == IF v < lo THEN lo ELSE IF hi < v THEN hi ELSE v

\* juce::MidiBuffer::addEvent: inserted after every event at or before its
\* sample position
RECURSIVE MidiBufferAdd(_, _)
MidiBufferAdd(buf, ev) ==
    IF buf = <<>> THEN <<ev>>
    ELSE IF buf[Len(buf)].sample_offset <= ev.sample_offset THEN Append(buf, ev)
    ELSE Append(MidiBufferAdd(SubSeq(buf, 1, Len(buf) - 1), ev), buf[Len(buf)])

\* the events a backend generates itself in one processBlock call: n control
\* changes (status 0xB0) at sample position 0, numbered in data1
Generated(n) ==
    [i \in 1..n |-> [sample_offset |-> 0, status |-> 176, data1 |-> i, data2 |-> 0]]

\* AudioProcessor::processBlock on the MIDI buffer: the backend either leaves
\* its input events in the buffer or clears it, and adds the events it
\* generates; addEvent puts each after the events at or before position 0
ProcessBlockMidi(midi) ==
    LET kept == IF midiThru THEN midi ELSE <<>> IN
    SelectSeq(kept, LAMBDA e : e.sample_offset <= 0)
        \o Generated(midiEmit)
        \o SelectSeq(kept, LAMBDA e : e.sample_offset > 0)

\* the `for (metadata : p->midi)` loop that copies the buffer to the caller's
\* array from index `idx`, rebased by `base`, while idx < capacity
CollectMidi(out, midi, base, cap) ==
    LET room == IF cap > Len(out) THEN cap - Len(out) ELSE 0
        n == Min(Len(midi), room)
    IN  out \o [i \in 1..n |-> [midi[i] EXCEPT !.sample_offset = @ + base]]

\* the events of a buffer taken sample position by sample position, lowest
\* position first, in buffer order within one position
RECURSIVE ByPosition(_, _)
ByPosition(all, positions) ==
    IF positions = {} THEN <<>>
    ELSE LET p == CHOOSE q \in positions : \A r \in positions : q <= r
             At(e) == e.sample_offset = p
         IN  SelectSeq(all, At) \o ByPosition(all, positions \ {p})

\* the MidiBuffer after `p->midi.addEvent(msg, jlimit(0, nframes - 1,
\* ev.sample_offset))` for every event in order: addEvent places an event
\* after all events at or before its position (MidiBufferAdd), so the buffer
\* holds the events by position, in insertion order within one position
ClampedMidi(buf, events, n) ==
    LET all == buf \o [i \in 1..Len(events) |->
                          [events[i] EXCEPT !.sample_offset = jlimit(0, n - 1, @)]]
    IN  ByPosition(all, { all[i].sample_offset : i \in 1..Len(all) })

\* mh_process_midi_io on plugin k (0-based): its result, the MIDI it hands
\* back, and whether processBlock ran
mh_process_midi_io(k, n, events, cap) ==
    IF n < 0 \/ n > maxBlockSize[k + 1]
    THEN [result |-> 0, ran |-> FALSE, midi_out |-> <<>>]
    ELSE [result |-> 1, ran |-> TRUE,
          midi_out |-> IF cap > 0
                       THEN CollectMidi(<<>>,
                                ProcessBlockMidi(ClampedMidi(<<>>, events, n)),
                                0, cap)
                       ELSE <<>>]

\* mutant: the stages after a failed stage are invoked all the same
RECURSIVE LaterStages_Continue(_, _)
LaterStages_Continue(i, n) ==
    IF i >= num_plugins THEN <<>>
    ELSE <<i>> \o LaterStages_Continue(i + 1, n)

\* the stages of mh_chain_process_midi_io after stage 0: mh_process on each
\* in index order, stopping at the first that fails; the stages invoked
RECURSIVE LaterStages(_, _)
LaterStages(i, n) ==
    IF i >= num_plugins THEN <<>>
    ELSE IF mh_process_midi_io(i, n, <<>>, 0).result = 0 THEN <<i>>
    ELSE <<i>> \o LaterStages(i + 1, n)

\* mutant: mh_chain_process_midi_io without the max_block_size test
mh_chain_process_midi_io_NoLimit(n, events, cap) ==
    IF n <= 0 \/ num_plugins = 0
    THEN [result |-> 0, stages |-> <<>>, midi_out |-> <<>>]
    ELSE LET first == mh_process_midi_io(0, n, events, cap)
             rest == IF first.result = 0 THEN <<>> ELSE LaterStages(1, n)
             stages == <<0>> \o rest
             last == stages[Len(stages)]
             ok == /\ Len(stages) = num_plugins
                   /\ mh_process_midi_io(last, n, <<>>, 0).result = 1
         IN  [result |-> IF ok THEN 1 ELSE 0,
              stages |-> stages,
              midi_out |-> first.midi_out]

\* mh_chain_process_midi_io: result, MIDI handed back (stage 0's), the
\* stages invoked in order and whether the last stage wrote the output
mh_chain_process_midi_io(n, events, cap) ==
    IF n <= 0 \/ n > ChainMaxBlockSize \/ num_plugins = 0
    THEN [result |-> 0, stages |-> <<>>, midi_out |-> <<>>]
    ELSE LET first == mh_process_midi_io(0, n, events, cap)
             rest == IF first.result = 0 THEN <<>> ELSE LaterStages(1, n)
             stages == <<0>> \o rest
             last == stages[Len(stages)]
             ok == /\ Len(stages) = num_plugins
                   /\ mh_process_midi_io(last, n, <<>>, 0).result = 1
         IN  [result |-> IF ok THEN 1 ELSE 0,
              stages |-> stages,
              midi_out |-> first.midi_out]

\* mutant: the chunk end may equal current_sample
ChunkEnd_AtOrAfter(changes, pidx, cs, nf) ==
    IF pidx < Len(changes)
    THEN LET next_change == changes[pidx + 1].sample_offset IN
         IF next_change >= cs /\ next_change < nf THEN next_change ELSE nf
    ELSE nf

\* mutant: the chunk end is not required to lie after current_sample
ChunkEnd_NoGuard(changes, pidx, cs, nf) ==
    IF pidx < Len(changes)
    THEN LET next_change == changes[pidx + 1].sample_offset IN
         IF next_change < nf THEN next_change ELSE nf
    ELSE nf

\* `chunk_end = nframes`, shrunk to param_changes[param_idx].sample_offset
\* when that lies strictly between current_sample and nframes
ChunkEnd(changes, pidx, cs, nf) ==
    IF pidx < Len(changes)
    THEN LET next_change == changes[pidx + 1].sample_offset IN
         IF next_change > cs /\ next_change < nf THEN next_change ELSE nf
    ELSE nf

\* mutant: the apply loop tests `<` where the source tests `<=`
RECURSIVE AppliedIdx_Strict(_, _, _)
AppliedIdx_Strict(changes, pidx, cs) ==
    IF pidx < Len(changes) /\ changes[pidx + 1].sample_offset < cs
    THEN AppliedIdx_Strict(changes, pidx + 1, cs)
    ELSE pidx

\* param_idx after the `while (param_idx < num_param_changes &&
\* param_changes[param_idx].sample_offset <= current_sample)` loop
RECURSIVE AppliedIdx(_, _, _)
AppliedIdx(changes, pidx, cs) ==
    IF pidx < Len(changes) /\ changes[pidx + 1].sample_offset <= cs
    THEN AppliedIdx(changes, pidx + 1, cs)
    ELSE pidx

\* whether a change reaches a parameter: mh_process_auto checks param_index;
\* mh_chain_process_auto looks the plugin up (mh_chain_get_plugin) and
\* mh_set_param checks the index
ChangeHits(pc) ==
    /\ pc.plugin_index >= 0 /\ pc.plugin_index < num_plugins
    /\ pc.param_index >= 0 /\ pc.param_index < ParamsSize

\* one change applied: setValueNotifyingHost(jlimit(0, 1, value))
SetParam(pp, pc) ==
    IF ChangeHits(pc)
    THEN [pp EXCEPT ![pc.plugin_index + 1][pc.param_index] = jlimit(0, 10, pc.value)]
    ELSE pp

\* the changes with 0-based indices from..to-1 applied in input order
RECURSIVE ApplyChanges(_, _, _, _)
ApplyChanges(pp, changes, from, to) ==
    IF from >= to THEN pp
    ELSE ApplyChanges(SetParam(pp, changes[from + 1]), changes, from + 1, to)

\* midi_idx after the slicing loop: it stops at the first event at or past
\* chunk_end
RECURSIVE SlicedIdx(_, _, _)
SlicedIdx(midi, midx, chunk_end) ==
    IF midx < Len(midi) /\ midi[midx + 1].sample_offset < chunk_end
    THEN SlicedIdx(midi, midx + 1, chunk_end)
    ELSE midx

\* mutant: the sliced events keep their block-global offsets
ChunkMidi_NoRebase(midi, midx, midx2, cs) ==
    SelectSeq(SubSeq(midi, midx + 1, midx2), LAMBDA e : e.sample_offset >= cs)

\* the chunk-local MIDI list in input order: the events the loop passed
\* whose offset is >= current_sample, rebased to the chunk
ChunkMidi(midi, midx, midx2, cs) ==
    LET passed == SubSeq(midi, midx + 1, midx2)
        kept == SelectSeq(passed, LAMBDA e : e.sample_offset >= cs)
    IN  [i \in 1..Len(kept) |-> [kept[i] EXCEPT !.sample_offset = @ - cs]]

\* the events in the order p->midi holds them (mh_process_auto adds them to
\* a MidiBuffer; mh_chain_process_auto keeps a vector)
RECURSIVE IntoMidiBuffer(_, _)
IntoMidiBuffer(buf, events) ==
    IF events = <<>> THEN buf
    ELSE IntoMidiBuffer(MidiBufferAdd(buf, events[1]), Tail(events))

SetEntries(changes, from, to) ==
    [i \in 1..(to - from) |->
        [op |-> "set", change |-> from + i - 1, hit |-> ChangeHits(changes[from + i])]]

\* the backend calls of one chunk: `midi` is the MIDI buffer the first stage
\* is handed (later stages get none), `ran` whether processBlock was reached
ProcessEntries(stages, start, len, midi) ==
    [i \in 1..Len(stages) |->
        [op |-> "process", plugin |-> stages[i], start |-> start, len |-> len,
         midi |-> IF i = 1 THEN midi ELSE <<>>,
         ran |-> mh_process_midi_io(stages[i], len, <<>>, 0).ran]]

\* frames start..start+len-1 of the caller's output rendered with pp
Render(out, start, len, pp) ==
    [f \in DOMAIN out |-> IF f >= start /\ f < start + len THEN pp ELSE out[f]]

(*---------------------------- the call's inputs -------------------------*)
\* non-decreasing offset lists of length len with offsets in [0, nf)
SortedOffsets(len, nf) ==
    { o \in [1..len -> 0..(nf - 1)] : \A i \in 1..(len - 1) : o[i] <= o[i + 1] }

\* (plugin_index, param_index) pairs a change may name. MH_ParamChange has
\* no plugin_index (0 here); param_index ParamsSize is out of range. For a
\* chain: a parameter of the first plugin, one of the last, a plugin_index
\* out of range, a param_index out of range.
Targets(np, chain) ==
    IF chain
    THEN {<<0, 0>>, <<np - 1, ParamsSize - 1>>, <<np, 0>>, <<0, ParamsSize>>}
    ELSE {0} \X (0..ParamsSize)

\* The value of the change at (1-based) position i: the first is below 0,
\* the second above 1, the others in range; all differ after clamping and
\* differ from the initial value 1, so a parameter value names the change
\* that set it.
ChangeValue(i) == IF i = 1 THEN 0 - 5 ELSE IF i = 2 THEN 15 ELSE i

\* param_changes arrays: sorted by sample_offset, offsets in [0, nf)
ChangeLists(nf, np, chain) ==
    UNION { { [i \in 1..len |->
                 [sample_offset |-> o[i], plugin_index |-> t[i][1],
                  param_index |-> t[i][2], value |-> ChangeValue(i)]] :
              o \in SortedOffsets(len, nf), t \in [1..len -> Targets(np, chain)] } :
            len \in 0..MaxChanges }

AutoStart(chain) ==
    /\ api = (IF chain THEN "mh_chain_process_auto" ELSE "mh_process_auto")
    /\ nframes \in 0..MaxFrames
    /\ num_plugins = (IF chain THEN 2 ELSE 1)
    /\ maxBlockSize = [k \in 1..num_plugins |-> MaxFrames - 1]
    /\ param_changes \in ChangeLists(nframes, num_plugins, chain)
    /\ plugParams = [k \in 1..num_plugins |-> [j \in 0..(ParamsSize - 1) |-> 1]]
    /\ current_sample = 0
    /\ param_idx = 0
    /\ midi_idx = 0
    /\ midi_out_idx = 0
    /\ midi_out = <<>>
    /\ num_midi_out = 0 - 1
    /\ outputs = [f \in 0..(nframes - 1) |-> <<>>]
    /\ a_pc = "start"
    /\ a_ret = 0 - 1
    /\ trace = <<>>

\* the caller passes no MIDI (NULL/0 for midi_in and midi_out)
NoMidi ==
    /\ midi_in = <<>>
    /\ midi_out_capacity = 0
    /\ midiThru = FALSE
    /\ midiEmit = 0

AutoInit ==
    /\ RingParked
    /\ ChainParked
    /\ OthersParked
    /\ NoViews
    /\ NoMidi
    /\ \E chain \in BOOLEAN : AutoStart(chain)

\* midi_in arrays: note-ons (status 0x90) with offsets in [0, nf), numbered
\* in data1 so that every event is distinct; sorted by sample_offset or, to
\* exercise the skip of stale events, in descending order
MidiLists(nf) ==
    UNION { { [i \in 1..len |->
                 [sample_offset |-> IF up THEN o[i] ELSE o[len + 1 - i],
                  status |-> 144, data1 |-> i, data2 |-> 100]] :
              o \in SortedOffsets(len, nf), up \in BOOLEAN } :
            len \in 0..MaxMidi }

\* the caller's midi_out_capacity (0: no midi_out array), whether the
\* backends pass MIDI through, and how many events they generate per call:
\* small arrays with small yields, and an array larger than the scratch
\* array of mh_chain_process_auto with a burst that overfills the latter
MidiSetups ==
    ({0, 1, 2} \X BOOLEAN \X {0, 1})
        \cup {<<ChunkMidiOutSize + 2, FALSE, ChunkMidiOutSize + 1>>}

\* a call with MIDI: the changes name parameter 0 of plugin 0 and have
\* distinct offsets
AutoMidiInit ==
    /\ RingParked
    /\ ChainParked
    /\ OthersParked
    /\ NoViews
    /\ \E chain \in BOOLEAN : AutoStart(chain)
    /\ \A i \in 1..Len(param_changes) :
          /\ param_changes[i].plugin_index = 0 /\ param_changes[i].param_index = 0
          /\ i > 1 => param_changes[i - 1].sample_offset < param_changes[i].sample_offset
    /\ midi_in \in MidiLists(nframes)
    /\ \E m \in MidiSetups :
          midi_out_capacity = m[1] /\ midiThru = m[2] /\ midiEmit = m[3]

\* param_changes arrays the API does not promise to handle: offsets in any
\* order, from -1 (negative) up to nf (past the block); the targets are
\* parameter 0 of plugin 0 or a parameter that does not exist
AnyOrderLists(nf) ==
    UNION { { [i \in 1..len |->
                 [sample_offset |-> o[i], plugin_index |-> 0,
                  param_index |-> t[i], value |-> ChangeValue(i)]] :
              o \in [1..len -> (0 - 1)..nf], t \in [1..len -> {0, ParamsSize}] } :
            len \in 1..MaxChanges }

\* a call of mh_process_auto or mh_chain_process_auto with such a list and
\* no MIDI
AnyOrderInit ==
    /\ RingParked
    /\ ChainParked
    /\ OthersParked
    /\ NoViews
    /\ NoMidi
    /\ api \in {"mh_process_auto", "mh_chain_process_auto"}
    /\ nframes \in 0..MaxFrames
    /\ num_plugins = (IF api = "mh_chain_process_auto" THEN 2 ELSE 1)
    /\ maxBlockSize = [k \in 1..num_plugins |-> MaxFrames - 1]
    /\ param_changes \in AnyOrderLists(nframes)
    /\ plugParams = [k \in 1..num_plugins |-> [j \in 0..(ParamsSize - 1) |-> 1]]
    /\ current_sample = 0
    /\ param_idx = 0
    /\ midi_idx = 0
    /\ midi_out_idx = 0
    /\ midi_out = <<>>
    /\ num_midi_out = 0 - 1
    /\ outputs = [f \in 0..(nframes - 1) |-> <<>>]
    /\ a_pc = "start"
    /\ a_ret = 0 - 1
    /\ trace = <<>>

\* mutant: the entry points never take the fast path
FastPath_Never(changes) == FALSE

\* `if (!param_changes || num_param_changes <= 0)`: the call is delegated
FastPath(changes) == Len(changes) <= 0

(*------------------------------ mh_process_auto -------------------------*)
\* entry: the nframes check, *num_midi_out = 0, the fast path
ProcessAutoEnter ==
    /\ api = "mh_process_auto" /\ a_pc = "start"
    /\ IF nframes < 0 \/ nframes > maxBlockSize[1]
       THEN /\ a_ret' = 0 /\ a_pc' = "done"
            /\ UNCHANGED <<num_midi_out, midi_out, outputs, trace>>
       ELSE IF FastPath(param_changes)
       THEN LET r == mh_process_midi_io(0, nframes, midi_in, midi_out_capacity) IN
            /\ a_ret' = r.result /\ a_pc' = "done"
            /\ midi_out' = r.midi_out
            /\ num_midi_out' = Len(r.midi_out)
            /\ outputs' = Render(outputs, 0, nframes, plugParams)
            /\ trace' = trace \o ProcessEntries(<<0>>, 0, nframes,
                                      ClampedMidi(<<>>, midi_in, nframes))
       ELSE /\ a_pc' = "loop"
            /\ num_midi_out' = 0
            /\ UNCHANGED <<a_ret, midi_out, outputs, trace>>
    /\ UNCHANGED <<ringVars, viewVars, lockVars, audioVars, chainVars, api, nframes, param_changes, midi_in,
                   midi_out_capacity, num_plugins, maxBlockSize, plugParams,
                   midiThru, midiEmit, current_sample, param_idx, midi_idx, midi_out_idx>>

\* one iteration of `while (current_sample < nframes)`
ProcessAutoChunk ==
    /\ api = "mh_process_auto" /\ a_pc = "loop"
    /\ current_sample < nframes
    /\ LET chunk_end == ChunkEnd(param_changes, param_idx, current_sample, nframes)
           applied == AppliedIdx(param_changes, param_idx, current_sample)
           pp == ApplyChanges(plugParams, param_changes, param_idx, applied)
           chunk_size == chunk_end - current_sample
           sliced == SlicedIdx(midi_in, midi_idx, chunk_end)
           midi == IntoMidiBuffer(<<>>,
                       ChunkMidi(midi_in, midi_idx, sliced, current_sample))
           collected == IF midi_out_capacity > 0
                        THEN CollectMidi(midi_out, ProcessBlockMidi(midi),
                                         current_sample, midi_out_capacity)
                        ELSE midi_out
       IN
       /\ param_idx' = applied
       /\ plugParams' = pp
       /\ IF chunk_size <= 0
          THEN /\ a_pc' = "exit"
               /\ trace' = trace \o SetEntries(param_changes, param_idx, applied)
               /\ UNCHANGED <<midi_idx, midi_out, midi_out_idx, outputs,
                              current_sample>>
          ELSE /\ a_pc' = "loop"
               /\ midi_idx' = sliced
               /\ midi_out' = collected
               /\ midi_out_idx' = Len(collected)
               /\ outputs' = Render(outputs, current_sample, chunk_size, pp)
               /\ trace' = trace \o SetEntries(param_changes, param_idx, applied)
                                  \o ProcessEntries(<<0>>, current_sample,
                                                    chunk_size, midi)
               /\ current_sample' = chunk_end
    /\ UNCHANGED <<ringVars, viewVars, lockVars, audioVars, chainVars, api, nframes, param_changes, midi_in,
                   midi_out_capacity, num_plugins, maxBlockSize, midiThru, midiEmit,
                   num_midi_out, a_ret>>

\* the loop is left: *num_midi_out = midi_out_idx; return 1
ProcessAutoReturn ==
    /\ api = "mh_process_auto"
    /\ IF a_pc = "loop" THEN current_sample >= nframes ELSE a_pc = "exit"
    /\ num_midi_out' = midi_out_idx
    /\ a_ret' = 1
    /\ a_pc' = "done"
    /\ UNCHANGED <<ringVars, viewVars, lockVars, audioVars, chainVars, api, nframes, param_changes, midi_in,
                   midi_out_capacity, num_plugins, maxBlockSize, plugParams,
                   midiThru, midiEmit, current_sample, param_idx, midi_idx, midi_out_idx,
                   midi_out, outputs, trace>>

(*--------------------------- mh_chain_process_auto ----------------------*)
\* entry: the nframes check, *num_midi_out = 0, the fast path
ChainAutoEnter ==
    /\ api = "mh_chain_process_auto" /\ a_pc = "start"
    /\ IF nframes <= 0 \/ nframes > ChainMaxBlockSize
       THEN /\ a_ret' = 0 /\ a_pc' = "done"
            /\ UNCHANGED <<num_midi_out, midi_out, outputs, trace>>
       ELSE IF FastPath(param_changes)
       THEN LET r == mh_chain_process_midi_io(nframes, midi_in, midi_out_capacity) IN
            /\ a_ret' = r.result /\ a_pc' = "done"
            /\ midi_out' = r.midi_out
            /\ num_midi_out' = Len(r.midi_out)
            /\ outputs' = IF r.result = 1
                          THEN Render(outputs, 0, nframes, plugParams)
                          ELSE outputs
            /\ trace' = trace \o ProcessEntries(r.stages, 0, nframes,
                                      ClampedMidi(<<>>, midi_in, nframes))
       ELSE /\ a_pc' = "loop"
            /\ num_midi_out' = 0
            /\ UNCHANGED <<a_ret, midi_out, outputs, trace>>
    /\ UNCHANGED <<ringVars, viewVars, lockVars, audioVars, chainVars, api, nframes, param_changes, midi_in,
                   midi_out_capacity, num_plugins, maxBlockSize, plugParams,
                   midiThru, midiEmit, current_sample, param_idx, midi_idx, midi_out_idx>>

\* `chunk_inputs.empty() ? inputs : chunk_inputs.data()` (and the same for
\* the outputs), chunk_inputs holding `inputs[ch] + current_sample` for the
\* chain's ch channels: the frame of the caller's buffers at which the view
\* handed to the traversal starts
ViewStart(ch, cs) == IF ch = 0 THEN 0 ELSE cs

\* the stages whose stateMutex the mh_set_param calls for the changes
\* from..to-1 lock (mh_chain_get_plugin yields no plugin for an index out
\* of range, and then mh_set_param is not called)
MutexesTaken(changes, from, to) ==
    { changes[i + 1].plugin_index : i \in from..(to - 1) } \cap (0..(num_plugins - 1))

\* one iteration of `while (current_sample < nframes)`; the lock_guard of
\* mh_set_param waits while a control thread holds the plugin's stateMutex
ChainAutoChunk ==
    /\ api = "mh_chain_process_auto" /\ a_pc = "loop"
    /\ current_sample < nframes
    /\ MutexesTaken(param_changes, param_idx,
                    AppliedIdx(param_changes, param_idx, current_sample))
         \cap stateMutex = {}
    /\ LET chunk_end == ChunkEnd(param_changes, param_idx, current_sample, nframes)
           applied == AppliedIdx(param_changes, param_idx, current_sample)
           pp == ApplyChanges(plugParams, param_changes, param_idx, applied)
           chunk_size == chunk_end - current_sample
           sliced == SlicedIdx(midi_in, midi_idx, chunk_end)
           chunk_midi == ChunkMidi(midi_in, midi_idx, sliced, current_sample)
           r == mh_chain_process_midi_io(chunk_size, chunk_midi,
                    IF midi_out_capacity > 0 THEN ChunkMidiOutSize ELSE 0)
           collected == IF midi_out_capacity > 0
                        THEN CollectMidi(midi_out, r.midi_out,
                                         current_sample, midi_out_capacity)
                        ELSE midi_out
           sets == SetEntries(param_changes, param_idx, applied)
           view == [pos |-> current_sample, chunk_end |-> chunk_end,
                    in_start |-> ViewStart(in_ch, current_sample),
                    out_start |-> ViewStart(out_ch, current_sample),
                    len |-> chunk_size]
       IN
       /\ param_idx' = applied
       /\ plugParams' = pp
       /\ IF chunk_size <= 0
          THEN /\ a_pc' = "exit"
               /\ trace' = trace \o sets
               /\ UNCHANGED <<midi_idx, midi_out, midi_out_idx, outputs,
                              current_sample, a_ret, views>>
          ELSE IF r.result = 0
          THEN /\ a_pc' = "done"
               /\ a_ret' = 0
               /\ midi_idx' = sliced
               /\ views' = Append(views, view)
               /\ trace' = trace \o sets
                                  \o ProcessEntries(r.stages, current_sample, chunk_size,
                                         ClampedMidi(<<>>, chunk_midi, chunk_size))
               /\ UNCHANGED <<midi_out, midi_out_idx, outputs, current_sample>>
          ELSE /\ a_pc' = "loop"
               /\ midi_idx' = sliced
               /\ midi_out' = collected
               /\ midi_out_idx' = Len(collected)
               /\ views' = Append(views, view)
               /\ outputs' = Render(outputs, view.out_start, chunk_size, pp)
               /\ trace' = trace \o sets
                                  \o ProcessEntries(r.stages, current_sample, chunk_size,
                                         ClampedMidi(<<>>, chunk_midi, chunk_size))
               /\ current_sample' = chunk_end
               /\ UNCHANGED a_ret
    /\ UNCHANGED <<ringVars, in_ch, out_ch, lockVars, audioVars, chainVars, api, nframes,
                   param_changes, midi_in, midi_out_capacity, num_plugins,
                   maxBlockSize, midiThru, midiEmit, num_midi_out>>

\* the loop is left: *num_midi_out = midi_out_idx; return 1
ChainAutoReturn ==
    /\ api = "mh_chain_process_auto"
    /\ IF a_pc = "loop" THEN current_sample >= nframes ELSE a_pc = "exit"
    /\ num_midi_out' = midi_out_idx
    /\ a_ret' = 1
    /\ a_pc' = "done"
    /\ UNCHANGED <<ringVars, viewVars, lockVars, audioVars, chainVars, api, nframes, param_changes, midi_in,
                   midi_out_capacity, num_plugins, maxBlockSize, plugParams,
                   midiThru, midiEmit, current_sample, param_idx, midi_idx, midi_out_idx,
                   midi_out, outputs, trace>>

(*------------------- blocks at and beyond the size limits ----------------*)
\* the max_block_size the backends were opened with: the second stage of a
\* chain takes one frame less than the others
LimitSizes(np) == [k \in 1..np |-> IF k = 2 THEN MaxFrames - 2 ELSE MaxFrames - 1]

\* the changes name parameters that exist
ValidChanges(changes, np) ==
    \A i \in 1..Len(changes) :
        /\ changes[i].plugin_index \in 0..(np - 1)
        /\ changes[i].param_index \in 0..(ParamsSize - 1)

\* one call of mh_process_auto, of mh_chain_process_midi_io or of
\* mh_chain_process_auto on a chain of three stages, with a block of up to
\* MaxFrames frames or one frame more than a chain accepts (then with all
\* changes at offset 0); the caller passes one note and a midi_out array
LimitsInit ==
    /\ RingParked
    /\ ChainParked
    /\ OthersParked
    /\ NoViews
    /\ api \in {"mh_process_auto", "mh_chain_process_midi_io", "mh_chain_process_auto"}
    /\ nframes \in (0..MaxFrames) \cup {ChainMaxBlockSize + 1}
    /\ num_plugins = (IF api = "mh_process_auto" THEN 1 ELSE 3)
    /\ maxBlockSize = LimitSizes(num_plugins)
    /\ param_changes \in (IF api = "mh_chain_process_midi_io" THEN {<<>>}
                          ELSE ChangeLists(IF nframes > MaxFrames THEN 1 ELSE nframes,
                                           num_plugins, api = "mh_chain_process_auto"))
    /\ ValidChanges(param_changes, num_plugins)
    /\ plugParams = [k \in 1..num_plugins |-> [j \in 0..(ParamsSize - 1) |-> 1]]
    /\ midi_in = <<[sample_offset |-> 0, status |-> 144, data1 |-> 1, data2 |-> 100]>>
    /\ midi_out_capacity = 2
    /\ midiThru = TRUE
    /\ midiEmit = 1
    /\ current_sample = 0
    /\ param_idx = 0
    /\ midi_idx = 0
    /\ midi_out_idx = 0
    /\ midi_out = <<>>
    /\ num_midi_out = 0 - 1
    /\ outputs = [f \in 0..(nframes - 1) |-> <<>>]
    /\ a_pc = "start"
    /\ a_ret = 0 - 1
    /\ trace = <<>>

\* a call of mh_chain_process_midi_io made directly by the host
ChainProcessDirect ==
    /\ api = "mh_chain_process_midi_io" /\ a_pc = "start"
    /\ LET r == mh_chain_process_midi_io(nframes, midi_in, midi_out_capacity) IN
       /\ a_ret' = r.result
       /\ a_pc' = "done"
       /\ midi_out' = r.midi_out
       /\ num_midi_out' = IF r.stages = <<>> THEN num_midi_out ELSE Len(r.midi_out)
       /\ outputs' = IF r.result = 1
                     THEN Render(outputs, 0, nframes, plugParams)
                     ELSE outputs
       /\ trace' = trace \o ProcessEntries(r.stages, 0, nframes,
                                 ClampedMidi(<<>>, midi_in, nframes))
    /\ UNCHANGED <<ringVars, viewVars, lockVars, audioVars, chainVars, api, nframes, param_changes, midi_in,
                   midi_out_capacity, num_plugins, maxBlockSize, plugParams,
                   midiThru, midiEmit, current_sample, param_idx, midi_idx, midi_out_idx>>

(*------------- the same call on a backend and on a one-stage chain -------*)
\* the MIDI arrangements of the paired calls: no midi_out array, an array
\* of two events with a backend that passes MIDI through and adds an event
\* per call, and an array of ChunkMidiOutSize + 2 events with a backend
\* that emits ChunkMidiOutSize + 1 events per call
PairMidiSetups ==
    {<<0, FALSE, 0>>, <<2, TRUE, 1>>,
     <<ChunkMidiOutSize + 2, FALSE, ChunkMidiOutSize + 1>>}

\* mh_process_auto is called on a backend with a block it accepts; the
\* changes name parameter 0 or a parameter that does not exist
\* (MH_ParamChangeChain with plugin_index 0 carries the same fields)
PairInit ==
    /\ RingParked
    /\ ChainParked
    /\ OthersParked
    /\ NoViews
    /\ AutoStart(FALSE)
    /\ nframes <= maxBlockSize[1]
    /\ \A i \in 1..Len(param_changes) : param_changes[i].param_index \in {0, ParamsSize}
    /\ midi_in \in MidiLists(nframes)
    /\ \E m \in PairMidiSetups :
          midi_out_capacity = m[1] /\ midiThru = m[2] /\ midiEmit = m[3]

\* the call has returned; a chain made of that one backend, in the state
\* the backend had before the call, is handed the same arguments through
\* mh_chain_process_auto
PairSecondCall ==
    /\ api = "mh_process_auto" /\ a_pc = "done"
    /\ reference = <<>>
    /\ reference' = [ret |-> a_ret, trace |-> trace, midi_out |-> midi_out,
                     num_midi_out |-> num_midi_out, plugParams |-> plugParams,
                     outputs |-> outputs]
    /\ api' = "mh_chain_process_auto"
    /\ plugParams' = [k \in 1..num_plugins |-> [j \in 0..(ParamsSize - 1) |-> 1]]
    /\ current_sample' = 0
    /\ param_idx' = 0
    /\ midi_idx' = 0
    /\ midi_out_idx' = 0
    /\ midi_out' = <<>>
    /\ num_midi_out' = 0 - 1
    /\ outputs' = [f \in 0..(nframes - 1) |-> <<>>]
    /\ a_pc' = "start"
    /\ a_ret' = 0 - 1
    /\ trace' = <<>>
    /\ UNCHANGED <<ringVars, viewVars, chainVars, audioVars, stateMutex, nframes, param_changes,
                   midi_in, midi_out_capacity, num_plugins, maxBlockSize,
                   midiThru, midiEmit>>

(*------------------- chains of any channel configuration -----------------*)
\* a call of mh_chain_process_auto, without MIDI, on a chain whose first
\* stage reports 0, 1 or 2 input channels and whose last stage reports 0, 1
\* or 2 output channels; the caller passes non-null inputs and outputs
ViewsInit ==
    /\ RingParked
    /\ ChainParked
    /\ OthersParked
    /\ NoMidi
    /\ AutoStart(TRUE)
    /\ in_ch \in 0..2
    /\ out_ch \in 0..2
    /\ views = <<>>

ViewsNext == ChainAutoEnter \/ ChainAutoChunk \/ ChainAutoReturn

(*----------------------------- control threads --------------------------*)
\* a control thread enters an accessor of stage k's plugin (mh_get_param,
\* mh_set_param, mh_get_state, ...): std::lock_guard takes its stateMutex
ControlEnter ==
    /\ \E k \in 0..(num_plugins - 1) :
          /\ k \notin stateMutex
          /\ stateMutex' = stateMutex \cup {k}
    /\ UNCHANGED <<ringVars, viewVars, autoVars, chainVars, audioVars, reference>>

\* the accessor returns: the lock_guard releases the mutex
ControlLeave ==
    /\ \E k \in stateMutex : stateMutex' = stateMutex \ {k}
    /\ UNCHANGED <<ringVars, viewVars, autoVars, chainVars, audioVars, reference>>

(***************************************************************************)
(* minihost_audio.c: the audio device, its MIDI input thread and its audio *)
(* callback. The ring buffer calls are taken as single steps here; their   *)
(* memory accesses are interleaved in SpecRing.                            *)
(***************************************************************************)
\* the capacity mh_audio_open asks of mh_midi_ringbuffer_create
MidiQueueSize == 256
\* MH_MidiEvent midi_events[256], the max_events of the callback's pop_all
MidiEventsSize == 256
\* MH_MidiEvent midi_out[256], the midi_out_capacity of the callback
MidiOutSize == 256
\* what the driver's output array holds when the callback is entered
StaleSample == 0 - 1

\* the n-th event that was pushed before the first step of the model (a
\* note-off, status 0x80) and the event the n-th midi_input_callback of the
\* model pushes (a note-on, status 0x90, sample_offset 0), numbered in their
\* two data bytes
QueuedEvent(n) == [sample_offset |-> 0, status |-> 128, data1 |-> n \div 128, data2 |-> n % 128]
InputEvent(n) == [sample_offset |-> 0, status |-> 144, data1 |-> n \div 128, data2 |-> n % 128]

\* mh_audio_open: the device's channels and buffers, the MIDI input queue
\* created with 256 slots, and whether a MIDI output is connected. The
\* MIDI thread has either pushed nothing yet or has left the queue one
\* event short of full. The plugin takes blocks of up to MaxFrames - 1
\* frames, passes MIDI through and emits midiEmit events per block.
AudioInit ==
    /\ ChainParked
    /\ stateMutex = {}
    /\ reference = <<>>
    /\ NoViews
    /\ requested = MidiQueueSize
    /\ capacity = next_power_of_2(requested)
    /\ mask = capacity - 1
    /\ \E queued \in {0, capacity - 2} :
          /\ buffer = [i \in 0..(capacity - 1) |->
                          IF i < queued THEN QueuedEvent(i + 1) ELSE ZeroEvent]
          /\ write_pos = queued
          /\ pushed = [i \in 1..queued |-> QueuedEvent(i)]
    /\ read_pos = 0
    /\ prod = ProdIdle
    /\ cons = ConsIdle
    /\ popped = <<>>
    /\ nPushCalls = 0
    /\ nRead = 0
    /\ slot = <<>>
    /\ popSince = FALSE
    /\ api = "none"
    /\ nframes = 0
    /\ param_changes = <<>>
    /\ midi_in = <<>>
    /\ midi_out_capacity = 0
    /\ num_plugins = 1
    /\ maxBlockSize = <<MaxFrames - 1>>
    /\ plugParams = <<>>
    /\ midiThru = TRUE
    /\ midiEmit \in {0, 1}
    /\ current_sample = 0
    /\ param_idx = 0
    /\ midi_idx = 0
    /\ midi_out_idx = 0
    /\ midi_out = <<>>
    /\ num_midi_out = 0
    /\ outputs = <<>>
    /\ a_pc = "none"
    /\ a_ret = 0 - 1
    /\ trace = <<>>
    /\ \E ch \in {1, 2}, buffer_frames \in {1, 2}, out \in BOOLEAN :
          dev = [channels |-> ch, buffer_frames |-> buffer_frames,
                 buffer_capacity |-> buffer_frames * 2, midi_out |-> out]
    /\ MidiOutOpened(dev.midi_out)
    /\ output_buffers = [ch \in 0..(dev.channels - 1) |->
                            [f \in 0..(dev.buffer_capacity - 1) |-> 0]]
    /\ frame_count = 0
    /\ interleaved_output = <<>>
    /\ sent = <<>>
    /\ cb = <<>>
    /\ nCallbacks = 0

\* midi_input_callback: one mh_midi_ringbuffer_push of an event with
\* sample_offset 0; a push on a full queue is dropped
MidiInputCallback ==
    /\ dev # NoDevice
    /\ nPushCalls < MaxMidiPush
    /\ LET event == InputEvent(nPushCalls + 1)
           next_write == NextIndex(write_pos)
       IN  IF PushIsFull(next_write, read_pos)
           THEN UNCHANGED <<buffer, write_pos, pushed>>
           ELSE /\ buffer' = [buffer EXCEPT ![write_pos] = event]
                /\ write_pos' = next_write
                /\ pushed' = Append(pushed, event)
    /\ nPushCalls' = nPushCalls + 1
    /\ UNCHANGED <<autoVars, viewVars, chainVars, lockVars, audioVars, requested,
                   capacity, mask, read_pos, prod, cons, popped, nRead, slot, popSince>>

\* mutant: pop_all leaves the last event it could take
PopAllCount_ShortByOne(read, write, max_events) ==
    LET n == Min((write - read) % capacity, max_events) IN
    IF n > 0 THEN n - 1 ELSE 0

\* mh_midi_ringbuffer_pop_all: the number of passes of
\* `while (read != write && count < max_events)`, each of which moves read
\* one slot towards write
PopAllCount(read, write, max_events) ==
    Min((write - read) % capacity, max_events)

\* the events the loop copies: events[count] = rb->buffer[read]
PopAllEvents(read, count) ==
    [i \in 1..count |-> buffer[BitAnd(read + i - 1, mask)]]

\* `if (frames > dev->buffer_capacity) frames = dev->buffer_capacity`
ClampFrames(fc) == IF fc > dev.buffer_capacity THEN dev.buffer_capacity ELSE fc

\* the plugin's processBlock on the device's output_buffers: frames
\* [0, frames) of every channel are written with samples that are non-zero
\* and name the callback, the channel and the frame
RenderedBlock(bufs, frames, n) ==
    [ch \in DOMAIN bufs |->
        [f \in DOMAIN bufs[ch] |->
            IF f < frames THEN 100 * n + 10 * ch + f + 1 ELSE bufs[ch][f]]]

\* `interleaved_output[f * channels + ch] = dev->output_buffers[ch][f]` for
\* f in [0, frames) and ch in [0, channels)
Interleave(out, bufs, frames, channels) ==
    [i \in DOMAIN out |->
        IF i < frames * channels
        THEN bufs[i % channels][i \div channels]
        ELSE out[i]]

\* mutant: the frames beyond the clamp are left as the driver passed them
ZeroRemaining_None(out, frames, fc, channels) == out

\* `memset(interleaved_output + frames * channels, 0, (frame_count - frames)
\* * channels * sizeof(float))` when frame_count > frames
ZeroRemaining(out, frames, fc, channels) ==
    IF fc > frames
    THEN [i \in DOMAIN out |->
            IF i >= frames * channels /\ i < frames * channels + (fc - frames) * channels
            THEN 0 ELSE out[i]]
    ELSE out

\* msg[0..2] = status, data1, data2 of every collected event
Messages(events) ==
    [i \in 1..Len(events) |-> <<events[i].status, events[i].data1, events[i].data2>>]

\* audio_callback(device, output, input, frame_count)
AudioCallback ==
    /\ dev # NoDevice
    /\ nCallbacks < MaxCallbacks
    /\ \E fc \in 0..(MaxFrames + 1) :
          LET frames == ClampFrames(fc)
              count == PopAllCount(read_pos, write_pos, MidiEventsSize)
              midi_events == PopAllEvents(read_pos, count)
              r == IF count > 0
                   THEN mh_process_midi_io(0, frames, midi_events, MidiOutSize)
                   ELSE mh_process_midi_io(0, frames, <<>>, 0)
              bufs == IF r.ran
                      THEN RenderedBlock(output_buffers, frames, nCallbacks + 1)
                      ELSE output_buffers
              msgs == IF Len(r.midi_out) > 0 /\ dev.midi_out
                      THEN Messages(r.midi_out) ELSE <<>>
              driver == [i \in 0..(fc * dev.channels - 1) |-> StaleSample]
          IN  /\ frame_count' = fc
              /\ read_pos' = BitAnd(read_pos + count, mask)
              /\ nRead' = nRead + count
              /\ popped' = popped \o midi_events
              /\ output_buffers' = bufs
              /\ sent' = sent \o msgs
              /\ interleaved_output' =
                    ZeroRemaining(Interleave(driver, bufs, frames, dev.channels),
                                  frames, fc, dev.channels)
              /\ cb' = [frames |-> frames,
                        unread |-> SubSeq(pushed, nRead + 1, Len(pushed)),
                        midi_events |-> midi_events,
                        ran |-> r.ran,
                        generated |-> IF r.ran
                                      THEN ProcessBlockMidi(
                                               ClampedMidi(<<>>, midi_events, frames))
                                      ELSE <<>>,
                        messages |-> msgs]
    /\ nCallbacks' = nCallbacks + 1
    /\ UNCHANGED <<autoVars, viewVars, chainVars, lockVars, midiOutVars, dev, requested, capacity, mask,
                   buffer, write_pos, prod, cons, pushed, nPushCalls, slot, popSince>>

(***************************************************************************)
(* The two threads of the device step by step: the MIDI thread inside      *)
(* midi_input_callback and its push, the audio thread inside               *)
(* audio_callback and its pop_all, every memory access of the queue a step *)
(* of its own (the steps of mh_midi_ringbuffer_push and _pop_all above).   *)
(***************************************************************************)
\* the frame_count values the driver passes to the callbacks of these runs:
\* none, one, and more than the plugin's maximum block
DriverFrameCounts == {0, 1, MaxFrames}

\* mh_audio_open of a mono device of two frames with a MIDI input and a
\* MIDI output connected; the plugin passes its MIDI input through and adds
\* nothing. The MIDI thread has pushed `queued` events since.
DeviceOpened(queued) ==
    /\ ChainParked
    /\ stateMutex = {}
    /\ reference = <<>>
    /\ NoViews
    /\ requested = MidiQueueSize
    /\ capacity = next_power_of_2(requested)
    /\ mask = capacity - 1
    /\ buffer = [i \in 0..(capacity - 1) |->
                    IF i < queued THEN QueuedEvent(i + 1) ELSE ZeroEvent]
    /\ write_pos = queued
    /\ pushed = [i \in 1..queued |-> QueuedEvent(i)]
    /\ slot = [i \in 0..(capacity - 1) |->
                  IF i < queued THEN "full" ELSE "free"]
    /\ read_pos = 0
    /\ prod = ProdIdle
    /\ cons = ConsIdle
    /\ popped = <<>>
    /\ nPushCalls = 0
    /\ nRead = 0
    /\ popSince = FALSE
    /\ api = "none"
    /\ nframes = 0
    /\ param_changes = <<>>
    /\ midi_in = <<>>
    /\ midi_out_capacity = 0
    /\ num_plugins = 1
    /\ maxBlockSize = <<MaxFrames - 1>>
    /\ plugParams = <<>>
    /\ midiThru = TRUE
    /\ midiEmit = 0
    /\ current_sample = 0
    /\ param_idx = 0
    /\ midi_idx = 0
    /\ midi_out_idx = 0
    /\ midi_out = <<>>
    /\ num_midi_out = 0
    /\ outputs = <<>>
    /\ a_pc = "none"
    /\ a_ret = 0 - 1
    /\ trace = <<>>
    /\ dev = [channels |-> 1, buffer_frames |-> 2, buffer_capacity |-> 4,
              midi_out |-> TRUE]
    /\ MidiOutOpened(dev.midi_out)
    /\ output_buffers = [ch \in 0..(dev.channels - 1) |->
                            [f \in 0..(dev.buffer_capacity - 1) |-> 0]]
    /\ frame_count = 0
    /\ interleaved_output = <<>>
    /\ sent = <<>>
    /\ cb = <<>>
    /\ nCallbacks = 0

\* the MIDI thread has either pushed nothing yet or has left the queue one
\* event short of full
DeliveryInit == \E queued \in {0, MidiQueueSize - 2} : DeviceOpened(queued)

\* midi_input_callback up to its call of mh_midi_ringbuffer_push: the event
\* is built with sample_offset 0 and push loads write_pos (relaxed)
MidiInputPush ==
    /\ dev # NoDevice
    /\ prod.pc = "idle"
    /\ nPushCalls < MaxMidiPush
    /\ prod' = [ProdIdle EXCEPT !.pc = "load_read",
                                !.write = write_pos,
                                !.next_write = NextIndex(write_pos),
                                !.event = InputEvent(nPushCalls + 1),
                                !.buffer0 = buffer]
    /\ nPushCalls' = nPushCalls + 1
    /\ UNCHANGED <<autoVars, viewVars, chainVars, lockVars, audioVars, requested,
                   capacity, mask, buffer, write_pos, read_pos, cons,
                   pushed, popped, nRead, slot, popSince>>

\* audio_callback up to its call of mh_midi_ringbuffer_pop_all(rb,
\* midi_events, 256): count = 0 and the relaxed load of read_pos
AudioDrain ==
    /\ dev # NoDevice
    /\ cons.pc = "idle"
    /\ \E fc \in DriverFrameCounts : frame_count' = fc
    /\ cons' = [ConsIdle EXCEPT !.pc = "load_write",
                                !.op = "pop_all",
                                !.max_events = MidiEventsSize,
                                !.read = read_pos,
                                !.read0 = read_pos,
                                !.events = [i \in 1..MidiEventsSize |-> StaleEvent],
                                !.popped0 = Len(popped)]
    /\ UNCHANGED <<autoVars, viewVars, chainVars, lockVars, midiOutVars, dev, output_buffers,
                   interleaved_output, sent, cb, nCallbacks, requested,
                   capacity, mask, buffer, write_pos, read_pos, prod,
                   pushed, popped, nPushCalls, nRead, slot, popSince>>

\* audio_callback from the return of pop_all on: the plugin is called with
\* the drained events, its MIDI output is sent and the block interleaved.
\* nCallbacks counts the callbacks up to MaxCallbacks.
AudioProcess ==
    /\ dev # NoDevice
    /\ cons.pc = "ret"
    /\ LET frames == ClampFrames(frame_count)
           n == Min(nCallbacks + 1, MaxCallbacks)
           midi_events == SubSeq(cons.events, 1, cons.ret)
           r == IF cons.ret > 0
                THEN mh_process_midi_io(0, frames, midi_events, MidiOutSize)
                ELSE mh_process_midi_io(0, frames, <<>>, 0)
           bufs == IF r.ran
                   THEN RenderedBlock(output_buffers, frames, n)
                   ELSE output_buffers
           msgs == IF Len(r.midi_out) > 0 /\ dev.midi_out
                   THEN Messages(r.midi_out) ELSE <<>>
           driver == [i \in 0..(frame_count * dev.channels - 1) |-> StaleSample]
       IN  /\ popped' = popped \o midi_events
           /\ output_buffers' = bufs
           /\ sent' = sent \o msgs
           /\ interleaved_output' =
                 ZeroRemaining(Interleave(driver, bufs, frames, dev.channels),
                               frames, frame_count, dev.channels)
           /\ cb' = [frames |-> frames,
                     unread |-> SubSeq(pushed, cons.popped0 + 1,
                                       cons.popped0 + cons.avail),
                     midi_events |-> midi_events,
                     ran |-> r.ran,
                     generated |-> IF r.ran
                                   THEN ProcessBlockMidi(
                                            ClampedMidi(<<>>, midi_events, frames))
                                   ELSE <<>>,
                     messages |-> msgs]
           /\ nCallbacks' = n
    /\ cons' = [cons EXCEPT !.pc = "idle"]
    /\ UNCHANGED <<autoVars, viewVars, chainVars, lockVars, midiOutVars, dev, frame_count,
                   requested, capacity, mask, buffer, write_pos, read_pos, prod,
                   pushed, nPushCalls, nRead, slot, popSince>>

\* the call audio_callback makes in every invocation,
\* mh_midi_ringbuffer_pop_all(dev->midi_in_buffer, midi_events, 256), up to
\* its relaxed load of read_pos
CallbackPopAll ==
    /\ cons.pc = "idle"
    /\ cons' = [ConsIdle EXCEPT !.pc = "load_write",
                                !.op = "pop_all",
                                !.max_events = MidiEventsSize,
                                !.read = read_pos,
                                !.read0 = read_pos,
                                !.events = [i \in 1..MidiEventsSize |-> StaleEvent],
                                !.popped0 = Len(popped)]
    /\ UNCHANGED <<autoVars, viewVars, chainVars, lockVars, audioVars, requested,
                   capacity, mask, buffer, write_pos, read_pos, prod,
                   pushed, popped, nPushCalls, nRead, slot, popSince>>

(***************************************************************************)
(* minihost_audio.c, minihost_midi.cpp: the device's MIDI output, which a  *)
(* control thread connects and disconnects while the audio thread sends.   *)
(* MH_MidiOut objects are numbered 1, 2, ... in the order they are opened; *)
(* an object leaves open_outs when mh_midi_out_close deletes it.           *)
(***************************************************************************)
\* the device is running: dev->midi_out is NULL or an open MH_MidiOut
MidiOutInit ==
    /\ RingParked
    /\ AutoParked
    /\ ChainParked
    /\ NoViews
    /\ stateMutex = {}
    /\ reference = <<>>
    /\ \E out \in BOOLEAN :
          dev = [channels |-> 1, buffer_frames |-> 2, buffer_capacity |-> 4,
                 midi_out |-> out]
    /\ output_buffers = [ch \in 0..(dev.channels - 1) |->
                            [f \in 0..(dev.buffer_capacity - 1) |-> 0]]
    /\ frame_count = 0
    /\ interleaved_output = <<>>
    /\ sent = <<>>
    /\ cb = <<>>
    /\ nCallbacks = 0
    /\ MidiOutOpened(dev.midi_out)

\* the next MH_MidiOut object mh_midi_out_open / _open_virtual allocates
NewHandle == ctl.calls + 2

\* a control thread enters mh_audio_connect_midi_output(dev, port_index)
\* with port_index >= 0, mh_audio_disconnect_midi_output(dev) (which is
\* connect with port_index -1) or mh_audio_create_virtual_midi_output
ConnectCall ==
    /\ dev # NoDevice
    /\ ctl.pc = "idle"
    /\ ctl.calls < MaxCtlCalls
    /\ \E op \in {"connect", "disconnect", "create_virtual"} :
          ctl' = [ctl EXCEPT !.pc = "check", !.op = op]
    /\ UNCHANGED <<ringVars, autoVars, viewVars, chainVars, lockVars, dev,
                   output_buffers, frame_count, interleaved_output, sent, cb,
                   nCallbacks, midi_out_ptr, open_outs, snd, out_sends>>

\* `if (dev->midi_out) { mh_midi_out_close(dev->midi_out);`: close_port
\* and `delete midi_out`
ConnectClose ==
    /\ ctl.pc = "check"
    /\ ctl' = [ctl EXCEPT !.pc = IF midi_out_ptr # NoHandle THEN "clear" ELSE "open",
                          !.closing = midi_out_ptr]
    /\ open_outs' = open_outs \ {midi_out_ptr}
    /\ UNCHANGED <<ringVars, autoVars, viewVars, chainVars, lockVars, dev,
                   output_buffers, frame_count, interleaved_output, sent, cb,
                   nCallbacks, midi_out_ptr, snd, out_sends>>

\* `dev->midi_out = NULL; ... }`
ConnectClear ==
    /\ ctl.pc = "clear"
    /\ midi_out_ptr' = NoHandle
    /\ dev' = [dev EXCEPT !.midi_out = FALSE]
    /\ ctl' = [ctl EXCEPT !.pc = "open"]
    /\ UNCHANGED <<ringVars, autoVars, viewVars, chainVars, lockVars,
                   output_buffers, frame_count, interleaved_output, sent, cb,
                   nCallbacks, open_outs, snd, out_sends>>

\* the rest of the call: disconnect returns 1; connect and create_virtual
\* store what mh_midi_out_open / mh_midi_out_open_virtual returns, a new
\* object or NULL, and return
ConnectOpen ==
    /\ ctl.pc = "open"
    /\ \E opened \in BOOLEAN :
          LET h == IF ctl.op # "disconnect" /\ opened THEN NewHandle ELSE NoHandle IN
          /\ midi_out_ptr' = IF ctl.op = "disconnect" THEN midi_out_ptr ELSE h
          /\ open_outs' = IF h # NoHandle THEN open_outs \cup {h} ELSE open_outs
          /\ dev' = [dev EXCEPT !.midi_out =
                        IF ctl.op = "disconnect" THEN @ ELSE h # NoHandle]
    /\ ctl' = [CtlIdle EXCEPT !.calls = ctl.calls + 1]
    /\ UNCHANGED <<ringVars, autoVars, viewVars, chainVars, lockVars,
                   output_buffers, frame_count, interleaved_output, sent, cb,
                   nCallbacks, snd, out_sends>>

\* audio_callback reaches `if (num_midi_out > 0 && dev->midi_out)` with the
\* num_midi_out events its process call collected
SendCheck ==
    /\ dev # NoDevice
    /\ snd.pc = "idle"
    /\ snd.calls < MaxCallbacks
    /\ \E n \in 0..MaxSend :
          snd' = IF n > 0 /\ midi_out_ptr # NoHandle
                 THEN [snd EXCEPT !.pc = "load", !.n = n, !.i = 0,
                                  !.first = midi_out_ptr, !.calls = @ + 1]
                 ELSE [snd EXCEPT !.n = n, !.i = 0, !.first = midi_out_ptr,
                                  !.calls = @ + 1]
    /\ UNCHANGED <<ringVars, autoVars, viewVars, chainVars, lockVars, dev,
                   output_buffers, frame_count, interleaved_output, sent, cb,
                   nCallbacks, midi_out_ptr, open_outs, ctl, out_sends>>

\* the values the argument dev->midi_out of one mh_midi_out_send call can
\* have: the field is a plain pointer that the control thread writes
\* without synchronisation, so the build may load it again in every pass
\* of the loop or keep the value the `if` loaded
SendArguments == {midi_out_ptr, snd.first}

\* one pass of `for (i = 0; i < num_midi_out; i++)` up to the call: msg is
\* filled and the argument dev->midi_out evaluated
SendLoad ==
    /\ snd.pc = "load"
    /\ \E h \in SendArguments : snd' = [snd EXCEPT !.pc = "send", !.arg = h]
    /\ UNCHANGED <<ringVars, autoVars, viewVars, chainVars, lockVars, dev,
                   output_buffers, frame_count, interleaved_output, sent, cb,
                   nCallbacks, midi_out_ptr, open_outs, ctl, out_sends>>

\* what mh_midi_out_send(midi_out, msg, 3) can do: return 0 on a null
\* pointer, send on an open object; on a deleted object it reads freed
\* memory, and anything can follow
SendOutcomes(h) ==
    IF h = NoHandle THEN {"returned 0"}
    ELSE IF h \in open_outs THEN {"sent"}
    ELSE {"sent", "returned 0", "crashed"}

\* mh_midi_out_send(dev->midi_out, msg, 3) and the loop's increment and test
SendCall ==
    /\ snd.pc = "send"
    /\ \E outcome \in SendOutcomes(snd.arg) :
          out_sends' = Append(out_sends,
                          [handle |-> snd.arg, open |-> snd.arg \in open_outs,
                           outcome |-> outcome])
    /\ snd' = [snd EXCEPT !.i = @ + 1,
                          !.pc = IF snd.i + 1 < snd.n THEN "load" ELSE "idle"]
    /\ UNCHANGED <<ringVars, autoVars, viewVars, chainVars, lockVars, dev,
                   output_buffers, frame_count, interleaved_output, sent, cb,
                   nCallbacks, midi_out_ptr, open_outs, ctl>>

(***************************************************************************)
(* minihost_chain.cpp: the chain object.                                   *)
(* Sample rates are counted in hundredths of a hertz above 44100 Hz, tail  *)
(* lengths in tenths of a second.                                          *)
(***************************************************************************)
\* The plugins the owner has opened (mh_open). sampleRate, maxBlockSize,
\* inCh and outCh are the fields of MH_Plugin; num_input_ch, num_output_ch
\* and latency_samples are what mh_get_info reports, tail what
\* mh_get_tail_seconds reports. The first was opened with requested_out_ch 2
\* on a backend that kept its mono output bus (tryConfigureBuses is best
\* effort), so it renders into two channels while it reports one.
Pool ==
    << [sampleRate |-> 8, maxBlockSize |-> MaxFrames - 1, inCh |-> 1, outCh |-> 2,
        num_input_ch |-> 1, num_output_ch |-> 1, latency_samples |-> 10, tail |-> 0],
       [sampleRate |-> 0, maxBlockSize |-> MaxFrames - 1, inCh |-> 2, outCh |-> 2,
        num_input_ch |-> 2, num_output_ch |-> 2, latency_samples |-> 0, tail |-> 25],
       [sampleRate |-> 16, maxBlockSize |-> MaxFrames - 2, inCh |-> 2, outCh |-> 1,
        num_input_ch |-> 2, num_output_ch |-> 1, latency_samples |-> 5, tail |-> 10] >>

\* a null entry of the plugin array
NullPlugin == 0

\* the arrays passed to mh_chain_create: entries index Pool or are null
PluginArrays ==
    UNION { [1..len -> {NullPlugin} \cup DOMAIN Pool] : len \in 0..MaxStages }

Abs(x) == IF x < 0 THEN 0 - x ELSE x
Max(a, b) == IF a > b THEN a ELSE b

\* the first index at or after i (0-based) that holds a null entry, or the
\* array length when there is none
RECURSIVE FirstNull(_, _)
FirstNull(arr, i) ==
    IF i >= Len(arr) THEN Len(arr)
    ELSE IF arr[i + 1] = NullPlugin THEN i
    ELSE FirstNull(arr, i + 1)

\* mutant: no two rates ever mismatch
RateMismatch_Never(rate, sample_rate) == FALSE

\* `std::fabs(rate - sample_rate) > 0.1`
RateMismatch(rate, sample_rate) == Abs(rate - sample_rate) > 10

\* the first index at or after i (0-based) whose rate mismatches
\* sample_rate, or the array length when there is none
RECURSIVE FirstMismatch(_, _, _)
FirstMismatch(arr, i, sample_rate) ==
    IF i >= Len(arr) THEN Len(arr)
    ELSE IF RateMismatch(Pool[arr[i + 1]].sampleRate, sample_rate) THEN i
    ELSE FirstMismatch(arr, i + 1, sample_rate)

\* mutant: an intermediate buffer is sized for the upstream stage alone
InterChannels_Upstream(arr, i) == Pool[arr[i + 1]].num_output_ch

\* channels of the buffer between stage i and stage i + 1 (0-based)
InterChannels(arr, i) ==
    Max(Pool[arr[i + 1]].num_output_ch, Pool[arr[i + 2]].num_input_ch)

\* mh_chain_create: the chain it returns (NoChain for NULL) and the message
\* it leaves in err_buf; mh_get_info succeeds on every open plugin
mh_chain_create(arr) ==
    IF Len(arr) <= 0
    THEN [chain |-> NoChain,
          err |-> [msg |-> "Plugin array is empty or null", index |-> 0 - 1]]
    ELSE IF FirstNull(arr, 0) < Len(arr)
    THEN [chain |-> NoChain,
          err |-> [msg |-> "Plugin at index %d is null", index |-> FirstNull(arr, 0)]]
    ELSE IF FirstMismatch(arr, 1, Pool[arr[1]].sampleRate) < Len(arr)
    THEN [chain |-> NoChain,
          err |-> [msg |-> "Sample rate mismatch: plugin 0 has %.0f Hz, plugin %d has %.0f Hz",
                   index |-> FirstMismatch(arr, 1, Pool[arr[1]].sampleRate)]]
    ELSE [chain |-> [plugins |-> arr,
                     sample_rate |-> Pool[arr[1]].sampleRate,
                     num_input_channels |-> Pool[arr[1]].num_input_ch,
                     num_output_channels |-> Pool[arr[Len(arr)]].num_output_ch,
                     max_block_size |-> ChainMaxBlockSize,
                     stage_channels |-> [i \in 1..Len(arr) |-> Pool[arr[i]].num_output_ch],
                     inter_channels |-> [i \in 1..(Len(arr) - 1) |->
                                            InterChannels(arr, i - 1)]],
          err |-> NoError]

\* intermediate_storage as `resize(buffer_size, 0.0f)` leaves it; of the
\* max_block_size frames of each channel the first MaxFrames are kept, no
\* call reaches further
FreshBuffers(c) ==
    [i \in 1..Len(c.inter_channels) |->
        [ch \in 0..(c.inter_channels[i] - 1) |-> [f \in 0..(MaxFrames - 1) |-> 0]]]

\* mutant: the latencies are aggregated like the tails, by their maximum
RECURSIVE LatencyFrom_Max(_, _, _)
LatencyFrom_Max(arr, i, total_latency) ==
    IF i >= Len(arr) THEN total_latency
    ELSE LatencyFrom_Max(arr, i + 1,
                         IF Pool[arr[i + 1]].latency_samples > total_latency
                         THEN Pool[arr[i + 1]].latency_samples ELSE total_latency)

\* mutant: the tails are aggregated like the latencies, by their sum
RECURSIVE TailFrom_Sum(_, _, _)
TailFrom_Sum(arr, i, max_tail) ==
    IF i >= Len(arr) THEN max_tail
    ELSE TailFrom_Sum(arr, i + 1, max_tail + Pool[arr[i + 1]].tail)

\* total_latency after the loop over chain->plugins from index i on
RECURSIVE LatencyFrom(_, _, _)
LatencyFrom(arr, i, total_latency) ==
    IF i >= Len(arr) THEN total_latency
    ELSE LatencyFrom(arr, i + 1, total_latency + Pool[arr[i + 1]].latency_samples)

\* mh_chain_get_latency_samples
mh_chain_get_latency_samples(c) ==
    IF c = NoChain THEN 0 ELSE LatencyFrom(c.plugins, 0, 0)

\* max_tail after the loop over chain->plugins from index i on
RECURSIVE TailFrom(_, _, _)
TailFrom(arr, i, max_tail) ==
    IF i >= Len(arr) THEN max_tail
    ELSE TailFrom(arr, i + 1,
                  IF Pool[arr[i + 1]].tail > max_tail
                  THEN Pool[arr[i + 1]].tail ELSE max_tail)

\* mh_chain_get_tail_seconds
mh_chain_get_tail_seconds(c) ==
    IF c = NoChain THEN 0 ELSE TailFrom(c.plugins, 0, 0)

\* mutant: the chain owns its plugins and destroys them with itself
Destroyed_WithPlugins(c) ==
    {[kind |-> "chain", id |-> 0]}
        \cup { [kind |-> "plugin", id |-> c.plugins[i]] : i \in 1..Len(c.plugins) }

\* the objects `delete chain` destroys: the chain and the storage its
\* vectors own; chain->plugins holds plain pointers
Destroyed(c) ==
    {[kind |-> "chain", id |-> 0]}
        \cup { [kind |-> "buffer", id |-> i] : i \in 1..Len(c.inter_channels) }

\* mutant: a later stage reads the intermediate buffer of its own index
StageInput_Own(k) ==
    IF k = 0 THEN [buf |-> "inputs", id |-> 0]
    ELSE [buf |-> "intermediate", id |-> k]

\* the buffer a stage reads: the caller's inputs or intermediate[k - 1]
StageInput(k) ==
    IF k = 0 THEN [buf |-> "inputs", id |-> 0]
    ELSE [buf |-> "intermediate", id |-> k - 1]

\* mutant: the last stage too renders into an intermediate buffer
StageOutput_Buffered(k, np) == [buf |-> "intermediate", id |-> k]

\* the buffer a stage renders into: intermediate[k] or, for the last stage,
\* the caller's outputs
StageOutput(k, np) ==
    IF k = np - 1 THEN [buf |-> "outputs", id |-> 0]
    ELSE [buf |-> "intermediate", id |-> k]

\* mutant: every stage is handed the caller's midi_out array
StageMidiCap_Shared(k, cap) == cap

\* the MIDI list and the midi_out capacity a stage is called with: the
\* caller's for stage 0, none for the stages called through mh_process
StageMidiIn(k, midi) == IF k = 0 THEN midi ELSE <<>>
StageMidiCap(k, cap) == IF k = 0 THEN cap ELSE 0

\* mutant: the memset stops one frame short of the block
PadFrames_ShortByOne(n) == 0..(n - 2)

\* the frames `memset(intermediate_ptrs[..][ch], 0, sizeof(float) * nframes)`
\* clears in one channel
PadFrames(n) == 0..(n - 1)

\* the zero-padding before stage k >= 1: channels prev_out_ch..curr_in_ch-1
\* of the stage's input buffer are cleared over the block
ZeroPad(buf, prev_out_ch, curr_in_ch, n) ==
    [ch \in DOMAIN buf |->
        [f \in DOMAIN buf[ch] |->
            IF ch >= prev_out_ch /\ ch < curr_in_ch /\ f \in PadFrames(n)
            THEN 0 ELSE buf[ch][f]]]

\* a stage's processBlock on a buffer of its outCh channels: every frame of
\* the block is overwritten with the stage's signal (k + 1, never 0)
Rendered(buf, outCh, n, k) ==
    [ch \in DOMAIN buf |->
        [f \in DOMAIN buf[ch] |->
            IF ch < outCh /\ f < n THEN k + 1 ELSE buf[ch][f]]]

\* one stage call of mh_chain_process_midi_io on the running state st: the
\* zero-padding of its input buffer, mh_process_midi_io (stage 0) or
\* mh_process (later stages), and what the call leaves behind
RunStage(st, k, n, midi, cap) ==
    LET arr == chainObj.plugins
        p == Pool[arr[k + 1]]
        prev_out_ch == IF k >= 1 THEN Pool[arr[k]].num_output_ch ELSE 0
        padded == IF k >= 1 /\ p.num_input_ch > prev_out_ch
                  THEN [st.inter EXCEPT ![k] = ZeroPad(@, prev_out_ch, p.num_input_ch, n)]
                  ELSE st.inter
        r == mh_process_midi_io(k, n, StageMidiIn(k, midi), StageMidiCap(k, cap))
        out == StageOutput(k, Len(arr))
        wrote == r.ran /\ StageMidiCap(k, cap) > 0
    IN  [inter |-> IF r.ran /\ out.buf = "intermediate"
                   THEN [padded EXCEPT ![k + 1] = Rendered(@, p.outCh, n, k)]
                   ELSE padded,
         calls |-> Append(st.calls,
                     [plugin |-> k, nframes |-> n,
                      midi_in |-> StageMidiIn(k, midi),
                      midi_out_capacity |-> StageMidiCap(k, cap),
                      input |-> StageInput(k), output |-> out,
                      frames |-> IF k >= 1 THEN padded[k] ELSE <<>>,
                      result |-> r.result,
                      midi_out |-> IF wrote THEN r.midi_out ELSE st.midi_out,
                      num_midi_out |-> IF wrote THEN Len(r.midi_out)
                                       ELSE st.num_midi_out]),
         midi_out |-> IF wrote THEN r.midi_out ELSE st.midi_out,
         num_midi_out |-> IF wrote THEN Len(r.midi_out) ELSE st.num_midi_out]

\* the stage calls of one mh_chain_process_midi_io call, in order
RECURSIVE RunStages(_, _, _, _, _)
RunStages(st, stages, n, midi, cap) ==
    IF stages = <<>> THEN st
    ELSE RunStages(RunStage(st, stages[1], n, midi, cap), Tail(stages), n, midi, cap)

\* every stage stays inside the buffer it renders into: its outCh channels
\* exist in the intermediate buffer that follows it
InBounds(c) ==
    \A k \in 1..Len(c.inter_channels) : Pool[c.plugins[k]].outCh <= c.inter_channels[k]

\* the midi_in arrays passed to mh_chain_process_midi_io
ChainMidiInputs ==
    {<<>>, <<[sample_offset |-> 0, status |-> 144, data1 |-> 1, data2 |-> 100]>>}

\* the midi_out_capacity passed to it (0: no midi_out array)
ChainMidiCapacities == {0, 2}

\* the owner has opened the plugins of Pool; every backend passes its MIDI
\* input through and adds one event of its own per block
ChainInit ==
    /\ RingParked
    /\ OthersParked
    /\ NoViews
    /\ api = "none"
    /\ nframes = 0
    /\ param_changes = <<>>
    /\ midi_in = <<>>
    /\ midi_out_capacity = 0
    /\ num_plugins = 0
    /\ maxBlockSize = <<>>
    /\ plugParams = <<>>
    /\ midiThru = TRUE
    /\ midiEmit = 1
    /\ current_sample = 0
    /\ param_idx = 0
    /\ midi_idx = 0
    /\ midi_out_idx = 0
    /\ midi_out = <<>>
    /\ num_midi_out = 0
    /\ outputs = <<>>
    /\ a_pc = "none"
    /\ a_ret = 0 - 1
    /\ trace = <<>>
    /\ chainObj = NoChain
    /\ inter = <<>>
    /\ err = NoError
    /\ plugins = <<>>
    /\ plugState = [k \in DOMAIN Pool |-> [open |-> TRUE]]
    /\ calls = <<>>
    /\ nCalls = 0

\* api, a_ret and the argument variables describe the call made last; a call
\* that has no such argument leaves the variable cleared
NoProcessArgs ==
    /\ nframes' = 0
    /\ midi_in' = <<>>
    /\ midi_out_capacity' = 0
    /\ midi_out' = <<>>
    /\ num_midi_out' = 0 - 1

NoCreateArgs ==
    /\ plugins' = <<>>
    /\ err' = NoError

\* mh_chain_create(plugins, num_plugins, err_buf, err_buf_size)
ChainCreate ==
    /\ chainObj = NoChain
    /\ \E arr \in PluginArrays :
          LET r == mh_chain_create(arr) IN
          /\ plugins' = arr
          /\ chainObj' = r.chain
          /\ err' = r.err
          /\ inter' = IF r.chain = NoChain THEN <<>> ELSE FreshBuffers(r.chain)
          /\ num_plugins' = Len(r.chain.plugins)
          /\ maxBlockSize' = [k \in 1..Len(r.chain.plugins) |->
                                 Pool[r.chain.plugins[k]].maxBlockSize]
          /\ a_ret' = IF r.chain = NoChain THEN 0 ELSE 1
    /\ api' = "mh_chain_create"
    /\ a_pc' = "done"
    /\ calls' = <<>>
    /\ nCalls' = 0
    /\ NoProcessArgs
    /\ UNCHANGED <<ringVars, viewVars, lockVars, audioVars, param_changes, plugParams, midiThru, midiEmit,
                   current_sample, param_idx, midi_idx, midi_out_idx, outputs,
                   trace, plugState>>

\* mh_chain_process_midi_io(chain, inputs, outputs, nframes, midi_in, ...)
\* on a chain whose stages stay inside their buffers
ChainProcess ==
    /\ chainObj # NoChain
    /\ InBounds(chainObj)
    /\ nCalls < MaxCalls
    /\ \E n \in 0..MaxFrames, m \in ChainMidiInputs, cap \in ChainMidiCapacities :
          LET r == mh_chain_process_midi_io(n, m, cap)
              st0 == [inter |-> inter, calls |-> <<>>, midi_out |-> <<>>,
                      num_midi_out |-> IF n <= 0 \/ n > chainObj.max_block_size
                                       THEN 0 - 1 ELSE 0]
              st == RunStages(st0, r.stages, n, m, cap)
          IN  /\ nframes' = n
              /\ midi_in' = m
              /\ midi_out_capacity' = cap
              /\ a_ret' = r.result
              /\ inter' = st.inter
              /\ calls' = st.calls
              /\ midi_out' = st.midi_out
              /\ num_midi_out' = st.num_midi_out
    /\ api' = "mh_chain_process_midi_io"
    /\ a_pc' = "done"
    /\ nCalls' = nCalls + 1
    /\ NoCreateArgs
    /\ UNCHANGED <<ringVars, viewVars, lockVars, audioVars, param_changes, num_plugins, maxBlockSize, plugParams,
                   midiThru, midiEmit, current_sample, param_idx, midi_idx,
                   midi_out_idx, outputs, trace, chainObj, plugState>>

\* mh_chain_get_latency_samples(chain)
ChainGetLatency ==
    /\ api' = "mh_chain_get_latency_samples"
    /\ a_pc' = "done"
    /\ a_ret' = mh_chain_get_latency_samples(chainObj)
    /\ calls' = <<>>
    /\ NoProcessArgs
    /\ NoCreateArgs
    /\ UNCHANGED <<ringVars, viewVars, lockVars, audioVars, param_changes, num_plugins, maxBlockSize, plugParams,
                   midiThru, midiEmit, current_sample, param_idx, midi_idx,
                   midi_out_idx, outputs, trace, chainObj, inter, plugState, nCalls>>

\* mh_chain_get_tail_seconds(chain)
ChainGetTail ==
    /\ api' = "mh_chain_get_tail_seconds"
    /\ a_pc' = "done"
    /\ a_ret' = mh_chain_get_tail_seconds(chainObj)
    /\ calls' = <<>>
    /\ NoProcessArgs
    /\ NoCreateArgs
    /\ UNCHANGED <<ringVars, viewVars, lockVars, audioVars, param_changes, num_plugins, maxBlockSize, plugParams,
                   midiThru, midiEmit, current_sample, param_idx, midi_idx,
                   midi_out_idx, outputs, trace, chainObj, inter, plugState, nCalls>>

\* mh_chain_close(chain) on a chain that exists
ChainClose ==
    /\ chainObj # NoChain
    /\ plugState' = [k \in DOMAIN plugState |->
                       [plugState[k] EXCEPT
                          !.open = @ /\ [kind |-> "plugin", id |-> k] \notin Destroyed(chainObj)]]
    /\ chainObj' = NoChain
    /\ inter' = <<>>
    /\ num_plugins' = 0
    /\ maxBlockSize' = <<>>
    /\ api' = "mh_chain_close"
    /\ a_pc' = "done"
    /\ a_ret' = 0 - 1
    /\ calls' = <<>>
    /\ NoProcessArgs
    /\ NoCreateArgs
    /\ UNCHANGED <<ringVars, viewVars, lockVars, audioVars, param_changes, plugParams, midiThru, midiEmit,
                   current_sample, param_idx, midi_idx, midi_out_idx, outputs,
                   trace, nCalls>>

ChainNext ==
    \/ ChainCreate \/ ChainProcess \/ ChainGetLatency \/ ChainGetTail \/ ChainClose

AutoNext ==
    \/ ProcessAutoEnter \/ ProcessAutoChunk \/ ProcessAutoReturn
    \/ ChainAutoEnter \/ ChainAutoChunk \/ ChainAutoReturn

RingNext ==
    \/ PushCall \/ PushLoadRead \/ PushWrite0 \/ PushWrite1
    \/ PushPublish \/ PushReturn
    \/ PopCall \/ PopAllCall \/ ConsLoadWrite \/ ConsCopy0 \/ ConsCopy1
    \/ ConsPublish \/ ConsReturn

LimitsNext == AutoNext \/ ChainProcessDirect

AudioNext == MidiInputCallback \/ AudioCallback

MidiThreadNext ==
    \/ MidiInputPush \/ PushLoadRead \/ PushWrite0 \/ PushWrite1
    \/ PushPublish \/ PushReturn

AudioThreadNext ==
    \/ AudioDrain \/ ConsLoadWrite \/ ConsCopy0 \/ ConsCopy1
    \/ ConsPublish \/ AudioProcess

DeliveryNext == MidiThreadNext \/ AudioThreadNext

\* a queue that can hold an event: mh_midi_ringbuffer_create gave it two
\* slots or more (the device's has 256)
QueueFairInit == RingInit /\ capacity >= 2

ProducerNext ==
    \/ PushCall \/ PushLoadRead \/ PushWrite0 \/ PushWrite1
    \/ PushPublish \/ PushReturn

\* the consumer's calls are pop and the pop_all of the audio callback
ConsumerNext ==
    \/ PopCall \/ CallbackPopAll \/ ConsLoadWrite \/ ConsCopy0 \/ ConsCopy1
    \/ ConsPublish \/ ConsReturn

QueueNext == ProducerNext \/ ConsumerNext

MidiOutNext ==
    \/ ConnectCall \/ ConnectClose \/ ConnectClear \/ ConnectOpen
    \/ SendCheck \/ SendLoad \/ SendCall

PairNext == AutoNext \/ PairSecondCall

LockNext == LimitsNext \/ ControlEnter \/ ControlLeave

vars == <<ringVars, autoVars, chainVars, lockVars, viewVars, audioVars>>

SpecRing == RingInit /\ [][RingNext]_vars

SpecCreate == CreateInit /\ [][CreateNext]_vars

SpecAuto == AutoInit /\ [][AutoNext]_vars

SpecAutoMidi == AutoMidiInit /\ [][AutoNext]_vars

SpecViews == ViewsInit /\ [][ViewsNext]_vars

SpecPair == PairInit /\ [][PairNext]_vars

\* the call runs on the caller's thread, which keeps executing it
SpecAnyOrder == AnyOrderInit /\ [][AutoNext]_vars /\ WF_vars(AutoNext)

SpecChain == ChainInit /\ [][ChainNext]_vars

SpecLimits == LimitsInit /\ [][LimitsNext]_vars

SpecLock == LimitsInit /\ [][LockNext]_vars

SpecAudio == AudioInit /\ [][AudioNext]_vars

SpecDelivery == DeliveryInit /\ [][DeliveryNext]_vars

SpecMidiOut == MidiOutInit /\ [][MidiOutNext]_vars

\* the driver keeps calling audio_callback and the audio thread keeps
\* executing it: the consumer always takes its next step; nothing is
\* assumed of the producer
SpecQueueFair == QueueFairInit /\ [][QueueNext]_vars /\ WF_vars(ConsumerNext)


(***************************************************************************)
(* Ring buffer: history views used by the properties.                      *)
(***************************************************************************)
\* events handed to the consumer so far, the returning call's included
Delivered ==
    popped \o (IF cons.pc = "ret" THEN SubSeq(cons.events, 1, cons.ret) ELSE <<>>)

\* events pushed and not yet released by the consumer
Unread == Len(pushed) - nRead

\* every unread event still sits, unaltered, in the slot its push wrote
QueueIntact ==
    \A k \in (nRead + 1)..Len(pushed) : buffer[(k - 1) % capacity] = pushed[k]

\* C2: under every interleaving of the producer's push with the consumer's
\* pop / pop_all, the events returned to the consumer, concatenated over all
\* calls, are a prefix of the events whose push succeeded: none is
\* duplicated, reordered or altered.
C2_Fifo == IsPrefix(Delivered, pushed)

\* C2 witness: both kinds of call have delivered events and the cursors
\* have wrapped around a 4-slot buffer.
C2_Witness ==
    /\ capacity = 4
    /\ Len(popped) >= 4
    /\ cons.pc = "ret" /\ cons.op = "pop_all" /\ cons.ret = 2

\* C3: a push that finds next_write equal to the read cursor returns 0 and
\* leaves the write cursor and every slot as they were; any other push
\* stores its event in the slot at the old write cursor, advances the write
\* cursor by one and returns 1; unread events are never overwritten.
C3_PushNeverOverwrites ==
    /\ QueueIntact
    /\ prod.pc = "ret" =>
         IF (prod.write + 1) % capacity = prod.read
         THEN /\ prod.ret = 0
              /\ write_pos = prod.write
              /\ buffer = prod.buffer0
              /\ \A k \in 1..Len(pushed) : pushed[k] # prod.event
         ELSE /\ prod.ret = 1
              /\ write_pos = (prod.write + 1) % capacity
              /\ buffer = [prod.buffer0 EXCEPT ![prod.write] = prod.event]
              /\ pushed[Len(pushed)] = prod.event

\* C3 witness: a push is refused on a full 4-slot buffer after the write
\* cursor has wrapped.
C3_Witness ==
    /\ capacity = 4
    /\ prod.pc = "ret" /\ prod.ret = 0
    /\ Len(pushed) >= 5

\* C4: (a) the consumer copies only slots whose payload write is complete
\* and published; (b) the producer writes only slots the consumer has
\* released, never one being copied or copied by a pop_all that has not
\* stored its new read cursor; the write cursor is stored only after the
\* payload is written.
C4_PublicationProtocol ==
    /\ cons.pc = "copy0" => slot[cons.read] = "full"
    /\ cons.pc = "copy1" => slot[cons.read] = "reading"
    /\ prod.pc = "write0" => slot[prod.write] = "free"
    /\ prod.pc = "write1" => slot[prod.write] = "writing"
    /\ prod.pc = "publish" =>
         slot[prod.write] = "written" /\ buffer[prod.write] = prod.event
    /\ ~(prod.pc \in {"write0", "write1"} /\ cons.pc \in {"copy0", "copy1"}
         /\ prod.write = cons.read)

\* C4 witness: the producer is in the middle of a payload write while a
\* pop_all holds a copied slot it has not yet released.
C4_Witness ==
    /\ prod.pc = "write1"
    /\ cons.op = "pop_all" /\ cons.pc = "copy1" /\ cons.count = 1
    /\ slot[cons.read0] = "copied"

\* C5: at most capacity-1 events are ever unread; a push returns 0 exactly
\* when capacity-1 events are unread at its load of the read cursor, and a
\* push that follows a successful pop succeeds.
C5_OneSlotReserved ==
    /\ Unread <= capacity - 1
    /\ prod.pc = "ret" =>
         /\ (prod.ret = 0) <=> (prod.unread = capacity - 1)
         /\ (prod.ret = 1) <=> (prod.unread < capacity - 1)
         /\ prod.popBefore => prod.ret = 1

\* C5 witness: an earlier push was refused, a pop released a slot, and this
\* push succeeds.
C5_Witness ==
    /\ prod.pc = "ret" /\ prod.ret = 1 /\ prod.popBefore
    /\ nPushCalls > Len(pushed)
    /\ capacity = 4

\* C6: pop_all(max) returns min(available, max) events, available counted at
\* its load of the write cursor; they are the oldest unread events in push
\* order; the rest stay queued in order; with an empty queue or max <= 0 it
\* returns 0 and the read cursor is unchanged.
C6_PopAllCount ==
    (cons.pc = "ret" /\ cons.op = "pop_all") =>
        /\ cons.ret = (IF cons.max_events <= 0 THEN 0
                       ELSE Min(cons.avail, cons.max_events))
        /\ SubSeq(cons.events, 1, cons.ret)
             = SubSeq(pushed, cons.popped0 + 1, cons.popped0 + cons.ret)
        /\ read_pos = (cons.read0 + cons.ret) % capacity
        /\ nRead = cons.popped0 + cons.ret
        /\ QueueIntact

\* C6 witness: pop_all(2) returns 2 events and leaves a remainder queued.
C6_Witness ==
    /\ cons.pc = "ret" /\ cons.op = "pop_all"
    /\ cons.max_events = 2 /\ cons.ret = 2 /\ cons.avail = 3
    /\ Unread >= 1

\* C7: pop returns 0 exactly when the read cursor equals the write cursor
\* it loaded, and then leaves both cursors and the caller's event alone;
\* otherwise it returns 1, yields the event at the read cursor and advances
\* the read cursor by one modulo the capacity.
C7_Pop ==
    /\ write_pos = Len(pushed) % capacity
    /\ (cons.pc = "ret" /\ cons.op = "pop") =>
         IF cons.read0 = cons.write
         THEN /\ cons.ret = 0
              /\ cons.avail = 0
              /\ read_pos = cons.read0
              /\ cons.events = <<StaleEvent>>
         ELSE /\ cons.ret = 1
              /\ cons.avail > 0
              /\ cons.events = <<pushed[cons.popped0 + 1]>>
              /\ read_pos = (cons.read0 + 1) % capacity

\* C7 witness: a pop succeeds at the last slot and wraps the read cursor.
C7_Witness ==
    /\ capacity = 4
    /\ cons.pc = "ret" /\ cons.op = "pop" /\ cons.ret = 1
    /\ cons.read0 = 3 /\ read_pos = 0


(***************************************************************************)
(* Automation: views of the history used by the properties.                *)
(***************************************************************************)
\* frames the first backend had been given before trace position j
RECURSIVE FramesBefore(_, _)
FramesBefore(tr, j) ==
    IF j <= 1 THEN 0
    ELSE FramesBefore(tr, j - 1)
         + (IF tr[j - 1].op = "process" /\ tr[j - 1].plugin = 0
            THEN tr[j - 1].len ELSE 0)

\* trace positions at which change i (0-based) was applied
SetPositions(tr, i) ==
    { j \in 1..Len(tr) : tr[j].op = "set" /\ tr[j].change = i }

\* trace positions of the backend calls (of the first stage, for a chain)
CallPositions(tr) ==
    { j \in 1..Len(tr) : tr[j].op = "process" /\ tr[j].plugin = 0 }

ChangeIds == 0..(Len(param_changes) - 1)
OffsetOf(i) == param_changes[i + 1].sample_offset

\* the backend calls are contiguous from frame 0
CallsContiguous ==
    \A j \in CallPositions(trace) : trace[j].start = FramesBefore(trace, j)

\* every change is applied once, when exactly the frames [0, offset) have
\* been processed, and a chunk starts at 0 and at every change offset
AppliedAtOffsets ==
    /\ CallsContiguous
    /\ \A i \in ChangeIds :
         /\ Cardinality(SetPositions(trace, i)) = 1
         /\ \A j \in SetPositions(trace, i) : FramesBefore(trace, j) = OffsetOf(i)
    /\ { trace[j].start : j \in CallPositions(trace) }
         = {0} \cup { OffsetOf(i) : i \in ChangeIds }

\* the chunked path of the given entry point has returned success
ChunkedDone(name) ==
    /\ api = name
    /\ a_pc = "done"
    /\ a_ret = 1
    /\ param_changes # <<>>

\* C1: after a successful mh_process_auto call with a sorted, in-range
\* change list, processing was split at every distinct change offset > 0
\* and every change was applied when the backend had processed exactly the
\* frames [0, offset), for any number of distinct offsets.
C1_SampleAccurate ==
    ChunkedDone("mh_process_auto") => AppliedAtOffsets

\* C8: after a successful mh_chain_process_auto call with a sorted, in-range
\* change list, processing was split at every distinct change offset > 0,
\* every chunk ran one traversal of all stages in order, and every change
\* was applied when exactly the frames [0, offset) had been traversed.
C8_ChainSampleAccurate ==
    ChunkedDone("mh_chain_process_auto") =>
        /\ AppliedAtOffsets
        /\ \A j \in CallPositions(trace) :
             \A k \in 0..(num_plugins - 1) :
                /\ j + k <= Len(trace)
                /\ trace[j + k].op = "process"
                /\ trace[j + k].plugin = k
                /\ trace[j + k].start = trace[j].start
                /\ trace[j + k].len = trace[j].len

\* a change names a parameter that exists
ValidTarget(pc) ==
    /\ pc.plugin_index \in 0..(num_plugins - 1)
    /\ pc.param_index \in 0..(ParamsSize - 1)

\* changes at offset 0 that are the last at offset 0 to name their parameter
LastAtZero ==
    { i \in ChangeIds :
        /\ OffsetOf(i) = 0
        /\ ValidTarget(param_changes[i + 1])
        /\ \A k \in ChangeIds :
              (k > i /\ OffsetOf(k) = 0)
                => <<param_changes[k + 1].plugin_index, param_changes[k + 1].param_index>>
                   # <<param_changes[i + 1].plugin_index, param_changes[i + 1].param_index>> }

\* C9: in mh_process_auto and in mh_chain_process_auto, every change with
\* sample_offset 0 is applied before the first backend call of the block, so
\* frame 0 is rendered with the offset-0 changes in effect.
C9_OffsetZeroFirst ==
    /\ \A i \in ChangeIds : OffsetOf(i) = 0 =>
          \A j \in 1..Len(trace) : trace[j].op = "process" =>
              \E k \in 1..(j - 1) : trace[k].op = "set" /\ trace[k].change = i
    /\ (nframes > 0 /\ outputs[0] # <<>>) =>
          \A i \in LastAtZero :
              outputs[0][param_changes[i + 1].plugin_index + 1]
                        [param_changes[i + 1].param_index]
                = jlimit(0, 10, param_changes[i + 1].value)

\* C9 witness: a chain call has finished whose first change, at offset 0,
\* set a parameter of the last plugin, and a later change sits at offset 2.
C9_Witness ==
    /\ ChunkedDone("mh_chain_process_auto")
    /\ Len(param_changes) = 3
    /\ OffsetOf(0) = 0 /\ OffsetOf(1) = 0 /\ OffsetOf(2) = 2
    /\ param_changes[1].plugin_index = 1
    /\ outputs[0][2][1] = 0

\* changes that share their sample_offset with another change
CoLocated == { i \in ChangeIds : \E k \in ChangeIds : k # i /\ OffsetOf(k) = OffsetOf(i) }

\* C10: after a successful mh_process_auto call, every group of changes that
\* share one sample_offset has been applied, in input order, directly before
\* the backend call for the chunk that starts at that offset, wherever the
\* group stands in the list.
C10_CoLocatedGroups ==
    ChunkedDone("mh_process_auto") =>
        \A i \in CoLocated :
            /\ SetPositions(trace, i) # {}
            /\ \A j \in SetPositions(trace, i) :
                 /\ \E c \in CallPositions(trace) :
                       /\ c > j
                       /\ trace[c].start = OffsetOf(i)
                       /\ \A m \in (j + 1)..(c - 1) : trace[m].op = "set"
                 /\ \A k \in CoLocated :
                       (k > i /\ OffsetOf(k) = OffsetOf(i)) =>
                           \A jk \in SetPositions(trace, k) : jk > j

(***************************************************************************)
(* MIDI in the chunked path.                                               *)
(***************************************************************************)
\* the chunked path of either entry point has returned success
ChunkedReturned ==
    ChunkedDone("mh_process_auto") \/ ChunkedDone("mh_chain_process_auto")

\* (call position, buffer position) pairs at which midi_in[m] reached a
\* backend's processBlock
Deliveries(m) ==
    { jk \in CallPositions(trace) \X (1..Len(midi_in)) :
        /\ trace[jk[1]].ran
        /\ jk[2] <= Len(trace[jk[1]].midi)
        /\ trace[jk[1]].midi[jk[2]].data1 = m }

MidiSorted ==
    \A i \in 1..(Len(midi_in) - 1) :
        midi_in[i].sample_offset <= midi_in[i + 1].sample_offset

\* C11: in the chunked path the MIDI index only advances and never passes the
\* end of the list; no event reaches the backend twice; an event that reaches
\* it does so in the chunk [pos, chunk_end) that holds its offset, unaltered
\* but for its offset, which is offset - pos; after a successful call with
\* sorted input every event was delivered exactly once, and with unsorted
\* input only events that follow a later-timed event were skipped.
C11_MidiSlicing ==
    (a_pc \in {"loop", "exit", "done"} /\ param_changes # <<>>) =>
        /\ midi_idx \in 0..Len(midi_in)
        /\ \A m \in 1..Len(midi_in) :
              /\ Cardinality(Deliveries(m)) <= 1
              /\ m > midi_idx => Deliveries(m) = {}
              /\ \A jk \in Deliveries(m) :
                    LET c == trace[jk[1]] IN
                    /\ c.start <= midi_in[m].sample_offset
                    /\ midi_in[m].sample_offset < c.start + c.len
                    /\ c.midi[jk[2]] = [midi_in[m] EXCEPT !.sample_offset = @ - c.start]
              /\ (ChunkedReturned /\ MidiSorted) => Cardinality(Deliveries(m)) = 1
              /\ (ChunkedReturned /\ Deliveries(m) = {}) =>
                    \E k \in 1..(m - 1) :
                        midi_in[k].sample_offset > midi_in[m].sample_offset

\* C11 witness: a chain call split at offset 2 delivered one event to the
\* first chunk and one, rebased from 3 to 1, to the second.
C11_Witness ==
    /\ ChunkedDone("mh_chain_process_auto")
    /\ Len(midi_in) = 2
    /\ midi_in[1].sample_offset = 1 /\ midi_in[2].sample_offset = 3
    /\ \E j \in CallPositions(trace) :
          /\ trace[j].start = 2
          /\ Len(trace[j].midi) = 1
          /\ trace[j].midi[1].data1 = 2 /\ trace[j].midi[1].sample_offset = 1

\* the events the first backend emitted in the calls at trace positions
\* 1..j, in call order, each with offset = local offset + chunk start
RECURSIVE EmittedUpTo(_, _)
EmittedUpTo(tr, j) ==
    IF j < 1 THEN <<>>
    ELSE EmittedUpTo(tr, j - 1)
         \o (IF tr[j].op = "process" /\ tr[j].plugin = 0 /\ tr[j].ran
             THEN LET out == ProcessBlockMidi(tr[j].midi) IN
                  [i \in 1..Len(out) |-> [out[i] EXCEPT !.sample_offset = @ + tr[j].start]]
             ELSE <<>>)

\* C12: in the chunked path of mh_process_auto and mh_chain_process_auto the
\* caller's list never holds more than midi_out_capacity events, and after a
\* successful call it holds the events the backend emitted, chunk after
\* chunk, each with offset = local offset + chunk start, cut only where
\* midi_out_capacity is reached; *num_midi_out is the number written.
C12_MidiOutCollected ==
    /\ (a_pc \in {"loop", "exit", "done"} /\ param_changes # <<>>) =>
          Len(midi_out) <= midi_out_capacity
    /\ ChunkedReturned =>
          LET all == EmittedUpTo(trace, Len(trace)) IN
          /\ midi_out = SubSeq(all, 1, Min(Len(all), midi_out_capacity))
          /\ num_midi_out = Len(midi_out)

\* a call without parameter changes has returned
FastPathDone == a_pc = "done" /\ param_changes = <<>>

\* the caller's output frames after one backend pass over the whole block
\* with the parameters as they were before the call
WholeBlock == [f \in 0..(nframes - 1) |-> plugParams]

Created == api = "mh_chain_create"

\* 0-based indices of the array passed to mh_chain_create
Stages == 0..(Len(plugins) - 1)

HasNull == \E i \in Stages : plugins[i + 1] = NullPlugin

RateOf(i) == Pool[plugins[i + 1]].sampleRate

\* what C14 says of an empty array, of null entries and of success
CreateBasics ==
    /\ (chainObj = NoChain) <=> (a_ret = 0)
    /\ Len(plugins) = 0 => chainObj = NoChain
    /\ HasNull =>
          /\ chainObj = NoChain
          /\ err.index \in Stages
          /\ plugins[err.index + 1] = NullPlugin
    /\ chainObj # NoChain =>
          /\ chainObj.plugins = plugins
          /\ err = NoError

Processed(min) ==
    /\ api = "mh_chain_process_midi_io"
    /\ Len(chainObj.plugins) >= min

\* what mh_get_info reports for stage k (0-based) of the chain
StageInfo(k) == Pool[chainObj.plugins[k + 1]]

\* C15: whenever a stage after the first is invoked and needs more input
\* channels than the stage before it produces, the channels
\* prev_out_ch..curr_in_ch-1 of the intermediate buffer it reads hold zeros
\* in all frames [0, nframes), on every call of the chain whatever the
\* earlier calls and their block sizes left in the buffer.
C15_ZeroPadding ==
    Processed(2) =>
        \A j \in 1..Len(calls) :
            LET e == calls[j] IN
            e.plugin >= 1 =>
                \A ch \in StageInfo(e.plugin - 1).num_output_ch
                             ..(StageInfo(e.plugin).num_input_ch - 1) :
                    \A f \in 0..(e.nframes - 1) : e.frames[ch][f] = 0

\* C15 witness: the second call on a three-stage chain whose first stage
\* renders two channels but reports one, feeding a two-input stage.
C15_Witness ==
    /\ Processed(3)
    /\ nCalls = 2
    /\ a_ret = 1
    /\ nframes = 2
    /\ StageInfo(0).num_output_ch = 1 /\ StageInfo(0).outCh = 2
    /\ StageInfo(1).num_input_ch = 2
    /\ Len(calls) = 3

\* C16: in a chain of two or more stages, stage 0 is called with the
\* caller's MIDI input and MIDI output arguments, every later stage with no
\* MIDI input and no MIDI output array, and the caller's midi_out list and
\* *num_midi_out are after every later stage what stage 0's call left.
C16_MidiFirstStageOnly ==
    (Processed(2) /\ calls # <<>>) =>
        /\ calls[1].plugin = 0
        /\ calls[1].midi_in = midi_in
        /\ calls[1].midi_out_capacity = midi_out_capacity
        /\ \A j \in 2..Len(calls) :
              /\ calls[j].plugin >= 1
              /\ calls[j].midi_in = <<>>
              /\ calls[j].midi_out_capacity = 0
              /\ calls[j].midi_out = calls[1].midi_out
              /\ calls[j].num_midi_out = calls[1].num_midi_out
        /\ midi_out = calls[1].midi_out
        /\ num_midi_out = calls[1].num_midi_out

\* C16 witness: a three-stage call returned the first stage's two events
\* (the caller's note and the one the stage generated).
C16_Witness ==
    /\ Processed(3)
    /\ a_ret = 1
    /\ Len(calls) = 3
    /\ Len(midi_in) = 1
    /\ num_midi_out = 2
    /\ midi_out[1] = midi_in[1]

\* the sum of the latencies the stages of the chain report
RECURSIVE SumLatency(_)
SumLatency(arr) ==
    IF arr = <<>> THEN 0
    ELSE Pool[arr[1]].latency_samples + SumLatency(Tail(arr))

\* C17: mh_chain_get_latency_samples returns the sum of the latencies of
\* the chain's stages (0 for no chain).
C17_LatencySum ==
    api = "mh_chain_get_latency_samples" => a_ret = SumLatency(chainObj.plugins)

\* C17 witness: stages with latencies 10, 0 and 5 give 15.
C17_Witness ==
    /\ api = "mh_chain_get_latency_samples"
    /\ [i \in 1..Len(chainObj.plugins) |-> Pool[chainObj.plugins[i]].latency_samples]
         = <<10, 0, 5>>
    /\ a_ret = 15

\* the tails the stages of the chain report
Tails == { Pool[chainObj.plugins[i]].tail : i \in 1..Len(chainObj.plugins) }

\* C18: mh_chain_get_tail_seconds returns the largest of the (non-negative)
\* tails of the chain's stages, not their sum (0 for no chain).
C18_TailMax ==
    api = "mh_chain_get_tail_seconds" =>
        /\ \A t \in Tails : t <= a_ret
        /\ a_ret \in Tails \cup {0}
        /\ Tails # {} => a_ret \in Tails

\* C18 witness: stages with tails 0.0, 2.5 and 1.0 give 2.5.
C18_Witness ==
    /\ api = "mh_chain_get_tail_seconds"
    /\ [i \in 1..Len(chainObj.plugins) |-> Pool[chainObj.plugins[i]].tail]
         = <<0, 25, 10>>
    /\ a_ret = 25

C20_CloseKeepsPlugins ==
    \A k \in DOMAIN plugState : plugState[k].open

\* C20 witness: a chain was closed after two process calls.
C20_Witness ==
    /\ api = "mh_chain_close"
    /\ chainObj = NoChain
    /\ nCalls = 2

(***************************************************************************)
(* Blocks beyond the size limit and failing stages.                        *)
(***************************************************************************)
\* the limit the entry point checks nframes against: the max_block_size the
\* plugin was opened with, or the chain's max_block_size
BlockLimit == IF api = "mh_process_auto" THEN maxBlockSize[1] ELSE ChainMaxBlockSize

FailedCalls == { j \in 1..Len(trace) : trace[j].op = "process" /\ ~trace[j].ran }

\* C22: in mh_chain_process_midi_io and mh_chain_process_auto a stage call
\* that fails is the last thing the call does: no later stage is invoked,
\* no later chunk is processed, no later parameter change is applied, the
\* failed call is not repeated, and the call returns 0. A call that returns
\* 1 has had no failed stage.
C22_FailureAborts ==
    api \in {"mh_chain_process_midi_io", "mh_chain_process_auto"} =>
        /\ \A j \in FailedCalls :
              /\ j = Len(trace)
              /\ a_pc = "done"
              /\ a_ret = 0
              /\ current_sample = trace[j].start
              /\ \A f \in DOMAIN outputs : f >= trace[j].start => outputs[f] = <<>>
              /\ \A i \in ChangeIds :
                    OffsetOf(i) > trace[j].start => SetPositions(trace, i) = {}
        /\ (a_pc = "done" /\ a_ret = 1) => FailedCalls = {}

\* C22 witness: mh_chain_process_auto split a block of MaxFrames frames at
\* the offset of its only change, MaxFrames - 1; the second stage refused
\* the first chunk, so the third stage and the last frame were never
\* processed and the change was never applied.
C22_Witness ==
    /\ api = "mh_chain_process_auto"
    /\ a_pc = "done"
    /\ a_ret = 0
    /\ nframes = MaxFrames
    /\ Len(param_changes) = 1
    /\ OffsetOf(0) = MaxFrames - 1
    /\ Len(trace) = 2
    /\ trace[1].ran /\ ~trace[2].ran
    /\ trace[2].plugin = 1

(***************************************************************************)
(* The realtime path and the control threads.                              *)
(***************************************************************************)
\* the audio thread is inside a chain processing call
InChainCall ==
    /\ api \in {"mh_chain_process_midi_io", "mh_chain_process_auto"}
    /\ a_pc \in {"start", "loop", "exit"}

\* the next step of the audio thread inside the chain call
ChainCallStep ==
    ChainProcessDirect \/ ChainAutoEnter \/ ChainAutoChunk \/ ChainAutoReturn

\* C23: the audio thread inside mh_chain_process_midi_io or
\* mh_chain_process_auto never waits for a plugin's stateMutex: whatever
\* mutexes control threads hold, its next step can be taken.
C23_NoLockOnRealtimePath ==
    InChainCall => ENABLED ChainCallStep

C25_FrameClamp ==
    nCallbacks > 0 =>
        LET processed == Min(frame_count, dev.buffer_capacity)
            Channels == 0..(dev.channels - 1)
        IN  /\ cb.frames = processed
            /\ DOMAIN output_buffers = Channels
            /\ \A ch \in Channels :
                  DOMAIN output_buffers[ch] = 0..(dev.buffer_capacity - 1)
            /\ DOMAIN interleaved_output = 0..(frame_count * dev.channels - 1)
            /\ \A ch \in Channels :
                  /\ \A f \in 0..(processed - 1) :
                        interleaved_output[f * dev.channels + ch] = output_buffers[ch][f]
                  /\ \A f \in processed..(frame_count - 1) :
                        interleaved_output[f * dev.channels + ch] = 0

\* C25 witness: the driver asked a two-channel device with a capacity of
\* two frames for MaxFrames + 1 frames in its second callback, and the
\* plugin rendered the two frames it was given.
C25_Witness ==
    /\ nCallbacks = 2
    /\ dev.channels = 2
    /\ dev.buffer_capacity = 2
    /\ frame_count = MaxFrames + 1
    /\ cb.ran
    /\ interleaved_output[3] = output_buffers[1][1]
    /\ output_buffers[1][1] > 0

\* C26: after every audio callback on a device with a MIDI output
\* connected, the messages sent in that callback are the MIDI events the
\* plugin's processBlock left in its buffer during that callback (up to
\* the 256 the callback's array holds), in order, whether or not the
\* callback drained any MIDI input.
C26_MidiOutForwarded ==
    (nCallbacks > 0 /\ dev.midi_out) =>
        cb.messages
          = Messages(SubSeq(cb.generated, 1, Min(Len(cb.generated), MidiOutSize)))

(***************************************************************************)
(* Ring buffer: who stores what.                                           *)
(***************************************************************************)
\* C27: a step of mh_midi_ringbuffer_push never changes read_pos, a step of
\* pop or pop_all never changes write_pos or a buffer slot, and capacity
\* and mask never change after create.
C27_CursorOwnership ==
    [][ /\ capacity' = capacity
        /\ mask' = mask
        /\ prod' # prod => read_pos' = read_pos
        /\ cons' # cons => (write_pos' = write_pos /\ buffer' = buffer)
        /\ read_pos' # read_pos => cons' # cons
        /\ (write_pos' # write_pos \/ buffer' # buffer) => prod' # prod ]_vars

\* C27 witness: on a 4-slot buffer both cursors have moved and wrapped:
\* five events were pushed and four of them released.
C27_Witness ==
    /\ capacity = 4
    /\ Len(pushed) = 5
    /\ nRead = 4
    /\ write_pos = 1
    /\ read_pos = 0
    /\ prod.pc = "idle" /\ cons.pc = "idle"

\* C28: a pop_all call stores read_pos at most once: until its single
\* store the cursor the producer can see is the one the call found; the
\* store is made after the last event was copied, moves the cursor by the
\* number of events copied, and ends the call; a call that copied nothing
\* stores nothing.
C28_SinglePublish ==
    /\ [](cons.op = "pop_all" =>
            /\ cons.pc \in {"load_write", "copy0", "copy1", "publish"}
                  => read_pos = cons.read0
            /\ (cons.pc = "ret" /\ cons.ret = 0) => read_pos = cons.read0)
    /\ [][ (cons.op = "pop_all" /\ cons.pc # "idle" /\ read_pos' # read_pos) =>
              /\ cons.pc = "publish"
              /\ cons'.pc = "ret"
              /\ cons.count > 0
              /\ cons'.ret = cons.count
              /\ read_pos' = cons.read
              /\ read_pos' = BitAnd(cons.read0 + cons.count, mask) ]_vars

\* C28 witness: a pop_all call that found the read cursor at slot 3 of a
\* 4-slot buffer copied two events and then stored 1.
C28_Witness ==
    /\ capacity = 4
    /\ cons.op = "pop_all"
    /\ cons.pc = "ret"
    /\ cons.ret = 2
    /\ cons.read0 = 3
    /\ read_pos = 1

(***************************************************************************)
(* Ring buffer creation.                                                   *)
(***************************************************************************)
IsPowerOfTwo(n) == \E k \in 0..30 : n = 2^k

\* C29: a ring buffer created for a request c >= 1 has the smallest power
\* of two >= c as its capacity, one created for c <= 0 has capacity 256;
\* mask is capacity - 1, every slot is zeroed and both cursors are 0.
C29_CreatedCapacity ==
    capacity # 0 =>
        /\ requested >= 1 =>
              /\ IsPowerOfTwo(capacity)
              /\ capacity >= requested
              /\ \A n \in requested..(capacity - 1) : ~IsPowerOfTwo(n)
        /\ requested <= 0 => capacity = 256
        /\ mask = capacity - 1
        /\ DOMAIN buffer = 0..(capacity - 1)
        /\ \A i \in DOMAIN buffer : buffer[i] = ZeroEvent
        /\ write_pos = 0
        /\ read_pos = 0

\* C29 witness: a request of 257 events made a 512-slot ring buffer.
C29_Witness ==
    /\ requested = 257
    /\ capacity = 512
    /\ mask = 511
    /\ write_pos = 0
    /\ read_pos = 0

(***************************************************************************)
(* Automation: the chunks of one block.                                    *)
(***************************************************************************)
\* C30: after a successful chunked mh_process_auto or mh_chain_process_auto
\* call with nframes > 0 the backend calls partition the block: the first
\* starts at frame 0, each next one starts where the previous one ended,
\* none is empty, and their lengths sum to nframes; in a chain every stage
\* is given the same chunks.
C30_ChunksPartition ==
    \A name \in {"mh_process_auto", "mh_chain_process_auto"} :
        (ChunkedDone(name) /\ nframes > 0) =>
            LET cp == CallPositions(trace)
                last == CHOOSE j \in cp : \A k \in cp : k <= j
            IN  /\ cp # {}
                /\ \A j \in cp :
                      /\ trace[j].start = FramesBefore(trace, j)
                      /\ trace[j].len > 0
                      /\ trace[j].start + trace[j].len <= nframes
                /\ \A j, k \in cp : j < k => trace[j].start < trace[k].start
                /\ trace[last].start + trace[last].len = nframes
                /\ FramesBefore(trace, Len(trace) + 1) = nframes
                /\ \A p \in 1..(num_plugins - 1) :
                      [j \in cp |-> <<trace[j + p].op, trace[j + p].plugin,
                                      trace[j + p].start, trace[j + p].len>>]
                      = [j \in cp |-> <<"process", p, trace[j].start, trace[j].len>>]

\* C30 witness: a chain call over a block of three frames that was
\* processed as two chunks by each of its stages.
C30_Witness ==
    /\ ChunkedDone("mh_chain_process_auto")
    /\ nframes = 3
    /\ num_plugins > 1
    /\ Cardinality(CallPositions(trace)) = 2

(***************************************************************************)
(* Automation: termination of the chunk loop.                              *)
(***************************************************************************)
\* an iteration of the chunk loop of either entry point
InChunkLoop == a_pc = "loop" /\ current_sample < nframes

\* C31: for every change list (any order, offsets negative or >= nframes)
\* the chunk loop terminates: an iteration either moves current_sample
\* strictly forward or ends the call with a failed traversal, the
\* `chunk_size <= 0` break is never taken, the call returns, and there are
\* at most (number of changes + 1) backend calls.
C31_LoopTerminates ==
    /\ [](a_pc # "exit")
    /\ [](Cardinality(CallPositions(trace)) <= Len(param_changes) + 1)
    /\ [](current_sample <= nframes \/ nframes < 0)
    /\ [][ InChunkLoop =>
              \/ current_sample' > current_sample
              \/ (a_pc' = "done" /\ a_ret' = 0) ]_vars
    /\ <>(a_pc = "done")

\* C31 witness: a successful call whose change list is out of order, has a
\* negative offset and an offset past the block, and was processed in two
\* chunks.
C31_Witness ==
    /\ a_pc = "done"
    /\ a_ret = 1
    /\ Len(param_changes) = 3
    /\ param_changes[1].sample_offset = 2
    /\ param_changes[2].sample_offset = 0 - 1
    /\ param_changes[3].sample_offset = nframes
    /\ Cardinality(CallPositions(trace)) = 2

(***************************************************************************)
(* Automation: what the parameters hold after the block.                   *)
(***************************************************************************)
\* the changes that name parameter j of plugin k
ChangesFor(k, j) ==
    { i \in ChangeIds : /\ param_changes[i + 1].plugin_index = k
                        /\ param_changes[i + 1].param_index = j }

\* the value parameter j of plugin k holds once every change was applied
\* in list order
FinalValue(k, j) ==
    IF ChangesFor(k, j) = {} THEN 1
    ELSE LET last == CHOOSE i \in ChangesFor(k, j) : \A m \in ChangesFor(k, j) : m <= i
         IN  jlimit(0, 10, param_changes[last + 1].value)

\* C32: after a successful mh_process_auto / mh_chain_process_auto call
\* with a sorted change list whose offsets lie in [0, nframes), every change
\* has been applied exactly once and every parameter holds the clamped
\* value of the last change in the list that names it.
C32_AllChangesApplied ==
    \A name \in {"mh_process_auto", "mh_chain_process_auto"} :
        ChunkedDone(name) =>
            /\ \A i \in ChangeIds : Cardinality(SetPositions(trace, i)) = 1
            /\ \A k \in 0..(num_plugins - 1) : \A j \in 0..(ParamsSize - 1) :
                  plugParams[k + 1][j] = FinalValue(k, j)

(***************************************************************************)
(* Automation: one change applied.                                         *)
(***************************************************************************)
\* a value brought into [0, 1] (in tenths)
Clamped01(v) == IF v < 0 THEN 0 ELSE IF v > 10 THEN 10 ELSE v

\* the changes the step consumes that name the existing parameter j of
\* plugin k
ConsumedFor(k, j) ==
    { i \in param_idx..(param_idx' - 1) :
        /\ param_changes[i + 1].plugin_index = k
        /\ param_changes[i + 1].param_index = j }

\* C33: a parameter changes only when a change that names it is applied,
\* and then holds that change's value clamped to [0,1]; a change whose
\* param_index or plugin_index is out of range is consumed without touching
\* a parameter; and no call fails because of such a change: a call fails
\* only on a block size it does not accept.
C33_ClampAndSkip ==
    /\ [][ /\ param_idx' >= param_idx
           /\ \A k \in 0..(num_plugins - 1) : \A j \in 0..(ParamsSize - 1) :
                 plugParams'[k + 1][j] =
                    IF ConsumedFor(k, j) = {} THEN plugParams[k + 1][j]
                    ELSE LET last == CHOOSE i \in ConsumedFor(k, j) :
                                        \A m \in ConsumedFor(k, j) : m <= i
                         IN  Clamped01(param_changes[last + 1].value)
           /\ DOMAIN plugParams' = DOMAIN plugParams ]_vars
    /\ [](\A k \in 1..num_plugins : \A j \in 0..(ParamsSize - 1) :
             plugParams[k][j] \in 0..10)
    /\ []((a_pc = "done" /\ a_ret = 0) =>
             \/ nframes > MaxFrames - 1
             \/ nframes < 0
             \/ (api = "mh_chain_process_auto" /\ nframes = 0))

\* C33 witness: a successful chain call whose first change names a plugin
\* that is not in the chain and whose second change, with a value above 1,
\* left parameter 0 of the first plugin at 1.
C33_Witness ==
    /\ ChunkedDone("mh_chain_process_auto")
    /\ Len(param_changes) >= 2
    /\ param_changes[1].plugin_index = num_plugins
    /\ param_changes[2].plugin_index = 0
    /\ param_changes[2].param_index = 0
    /\ param_changes[2].value > 10
    /\ param_idx >= 2
    /\ plugParams[1][0] = 10
    /\ plugParams[2] = [j \in 0..(ParamsSize - 1) |-> 1]

(***************************************************************************)
(* Chain: the route of one block.                                          *)
(***************************************************************************)
\* C34: in a chain of n >= 2 backends the stages are invoked in index
\* order, each at most once and, when the call succeeds, each exactly
\* once; stage 0 reads the caller's input and writes intermediate buffer
\* 0, a middle stage i reads buffer i-1 and writes buffer i, the last
\* stage reads buffer n-2 and writes the caller's output; no stage reads
\* and writes the same buffer, and the channels a stage reads that the
\* stage before it reports as outputs hold what that stage rendered in
\* this call.
C34_StageRouting ==
    Processed(2) =>
        LET n == Len(chainObj.plugins) IN
        /\ Len(calls) <= n
        /\ a_ret = 1 => Len(calls) = n
        /\ \A j \in 1..Len(calls) :
              LET e == calls[j]
                  i == j - 1
              IN  /\ e.plugin = i
                  /\ e.input = IF i = 0 THEN [buf |-> "inputs", id |-> 0]
                               ELSE [buf |-> "intermediate", id |-> i - 1]
                  /\ e.output = IF i = n - 1 THEN [buf |-> "outputs", id |-> 0]
                                ELSE [buf |-> "intermediate", id |-> i]
                  /\ e.input # e.output
                  /\ i >= 1 =>
                        \A ch \in 0..(Min(StageInfo(i - 1).outCh,
                                           StageInfo(i - 1).num_output_ch) - 1) :
                            \A f \in 0..(e.nframes - 1) : e.frames[ch][f] = i

\* C34 witness: a successful call on a three-stage chain, whose middle
\* stage read intermediate buffer 0 and wrote intermediate buffer 1.
C34_Witness ==
    /\ Processed(3)
    /\ a_ret = 1
    /\ nframes = 2
    /\ Len(calls) = 3
    /\ calls[2].input = [buf |-> "intermediate", id |-> 0]
    /\ calls[2].output = [buf |-> "intermediate", id |-> 1]
    /\ calls[3].output = [buf |-> "outputs", id |-> 0]

(***************************************************************************)
(* Chain: the intermediate buffers.                                        *)
(***************************************************************************)
\* the shape of the intermediate buffers: per buffer its channels, per
\* channel its frames
Shape(bufs) == [i \in DOMAIN bufs |-> [ch \in DOMAIN bufs[i] |-> DOMAIN bufs[i][ch]]]

\* C35: a chain of n backends has n-1 intermediate buffers, buffer i with
\* max(output channels of stage i, input channels of stage i+1) channels
\* of max_block_size frames each (of which the model keeps the first
\* MaxFrames); mh_chain_create allocates them and no process call changes
\* their number, channel count or size.
C35_IntermediateBuffers ==
    /\ [](chainObj # NoChain =>
            LET n == Len(chainObj.plugins) IN
            /\ Len(inter) = n - 1
            /\ Len(chainObj.inter_channels) = n - 1
            /\ chainObj.max_block_size = ChainMaxBlockSize
            /\ \A i \in 0..(n - 2) :
                  LET channels == IF StageInfo(i).num_output_ch > StageInfo(i + 1).num_input_ch
                                  THEN StageInfo(i).num_output_ch
                                  ELSE StageInfo(i + 1).num_input_ch
                  IN  /\ chainObj.inter_channels[i + 1] = channels
                      /\ DOMAIN inter[i + 1] = 0..(channels - 1)
                      /\ \A ch \in 0..(channels - 1) :
                            DOMAIN inter[i + 1][ch] = 0..(MaxFrames - 1))
    /\ [][ api' = "mh_chain_process_midi_io" =>
              /\ chainObj' = chainObj
              /\ Shape(inter') = Shape(inter) ]_vars
    /\ [][ (chainObj = NoChain /\ chainObj' # NoChain) =>
              /\ api' = "mh_chain_create"
              /\ \A i \in DOMAIN inter' : \A ch \in DOMAIN inter'[i] :
                    \A f \in DOMAIN inter'[i][ch] : inter'[i][ch][f] = 0 ]_vars

\* C35 witness: a three-stage chain still has its two 2-channel buffers
\* after two process calls of different block sizes wrote into them.
C35_Witness ==
    /\ Processed(3)
    /\ nCalls = 2
    /\ a_ret = 1
    /\ Len(inter) = 2
    /\ DOMAIN inter[1] = 0..1
    /\ DOMAIN inter[2] = 0..1
    /\ inter[1][0][0] # 0
    /\ nframes = 1
    /\ inter[1][0][1] # 0

(***************************************************************************)
(* Automation: a one-stage chain against its backend.                      *)
(***************************************************************************)
\* both calls of a pair have returned
PairDone ==
    /\ api = "mh_chain_process_auto"
    /\ a_pc = "done"
    /\ reference # <<>>

\* C36: for a chain of one backend, changes that name plugin_index 0 and
\* nframes in [0, max block size], mh_chain_process_auto returns what
\* mh_process_auto returns on that backend for the same arguments, applies
\* the same changes in the same order, makes the same backend calls (chunk
\* boundaries and per-chunk MIDI), leaves the same parameter values and
\* rendered frames, and writes the same MIDI output.
C36_ChainIsSingleVerbatim ==
    (PairDone /\ nframes <= maxBlockSize[1]) =>
        /\ a_ret = reference.ret
        /\ trace = reference.trace
        /\ plugParams = reference.plugParams
        /\ outputs = reference.outputs
        /\ midi_out = reference.midi_out
        /\ num_midi_out = reference.num_midi_out

(***************************************************************************)
(* Chain automation: the views of a chunk.                                 *)
(***************************************************************************)
\* C37: in mh_chain_process_auto, with non-null caller buffers, the input
\* and the output view handed to the traversal of every chunk start at
\* frame pos of the caller's buffers and are chunk_end - pos frames long,
\* whatever the chain's input and output channel counts (0 included).
C37_ChunkViews ==
    api = "mh_chain_process_auto" =>
        \A j \in 1..Len(views) :
            /\ views[j].in_start = views[j].pos
            /\ views[j].out_start = views[j].pos
            /\ views[j].len = views[j].chunk_end - views[j].pos

\* the order in which events enter the queue: those queued at the start by
\* their number, then those of the MIDI thread by theirs
PushOrder(e) == (e.status - 128) * 64 + e.data1 * 128 + e.data2

\* the audio thread returns from pop_all and finishes its callback
CallbackCompletes == cons.pc = "ret" /\ cons'.pc = "idle"

QueueFull == PushIsFull(NextIndex(write_pos), read_pos)

\* the steps a thread has inside push, and inside pop or pop_all
PushStep == PushLoadRead \/ PushWrite0 \/ PushWrite1 \/ PushPublish \/ PushReturn
ConsStep == ConsLoadWrite \/ ConsCopy0 \/ ConsCopy1 \/ ConsPublish \/ ConsReturn

\* C39: while the consumer keeps running (every call it makes is pop or
\* the callback's pop_all), (a) every event whose push succeeded is
\* eventually drained and returned to the consumer; (b) after a push that
\* failed on a full queue the queue eventually has room, room once there is
\* taken away only by the producer's own next push, and a push that finds
\* room succeeds; (c) a thread inside push, pop or pop_all can always take
\* its next step whatever the other thread is doing, and the loop of
\* pop_all copies no more than the events that were visible at its one
\* load of write_pos.
C39_QueueLiveness ==
    /\ \A k \in 1..MaxPush : (Len(pushed) >= k) ~> (Len(popped) >= k)
    /\ (prod.pc = "ret" /\ prod.ret = 0) ~> ~QueueFull
    /\ [][(~QueueFull /\ write_pos' = write_pos) => ~QueueFull']_vars
    /\ [][(prod.pc = "load_read" /\ prod'.pc # "load_read" /\ ~QueueFull)
             => prod'.pc = "write0"]_vars
    /\ [][(prod.pc = "publish" /\ prod'.pc = "ret") => prod'.ret = 1]_vars
    /\ [](/\ prod.pc # "idle" => ENABLED PushStep
          /\ cons.pc # "idle" => ENABLED ConsStep
          /\ cons.pc \in {"copy0", "copy1", "publish"} => cons.count <= cons.avail)

\* C39 witness: on a queue of four slots a push failed on the full queue,
\* the producer pushed again and succeeded, and the consumer has drained
\* every accepted event.
C39_Witness ==
    /\ capacity = 4
    /\ prod.pc = "idle"
    /\ prod.ret = 1
    /\ Len(pushed) >= 4
    /\ \E n \in 1..(nPushCalls - 1) :
          /\ \A i \in DOMAIN pushed : pushed[i] # PushEvent(n)
          /\ pushed[Len(pushed)] = PushEvent(nPushCalls)
    /\ popped = pushed
    /\ cons.pc = "idle"

\* C40: whatever the control thread does to the MIDI output while the
\* callback runs, every mh_midi_out_send call of the callback is made on
\* an MH_MidiOut object that is open at the time of the call.
C40_NoSendAfterClose ==
    \A i \in DOMAIN out_sends : out_sends[i].open

=============================================================================
